---- MODULE Spec2Model ----
(***************************************************************************)
(* Model of the catalog core of sound-manager (src-tauri/src/core):        *)
(* the in-memory DatabaseData (folders, entries, tags), the SQLite store   *)
(* behind it, and the directory tree it mirrors.                           *)
(***************************************************************************)
EXTENDS Integers, Sequences, FiniteSets, TLC

VARIABLES
    tags,       \* DatabaseData.tags : TagId -> Tag
    tagRows,    \* table tags : id -> row (soft-deleted rows included)
    tagSeq,     \* sqlite_sequence of table tags (AUTOINCREMENT)
    folders,    \* DatabaseData.folders : FolderId -> Folder
    entries,    \* DatabaseData.entries : EntryId -> Entry
    folderRows, \* table folders : id -> row
    entryRows,  \* table entries : id -> row
    folderSeq,  \* sqlite_sequence of table folders
    entrySeq,   \* sqlite_sequence of table entries
    diskDirs,   \* the directories under the base directory (relative paths)
    diskFiles,  \* the regular files under the base directory (relative paths)
    pending,    \* the event the directory watcher has not handled yet
    changes,    \* how many times the directory tree was changed
    entryTagRows, \* table entry_tag : the set of rows <<entry_id, tag_id>>
    foreign_keys, \* whether the SQLite of the build enforces foreign keys
    removedEntries, \* history: path and tag_ids of the entries that left the map
    emitter,    \* AppEmitter: its EmitterState, its mutex and its thread
    waveform,   \* WaveformGenerator: source, reset flag and worker threads
    watcher,    \* the watcher thread of the database and its stop channel
    app,        \* AppData: the database slot, and the Player with its workers
    locks       \* Database.data (RwLock) and Database.db (Mutex), and who takes them

tagVars == <<tags, tagRows, tagSeq>>

threadVars == <<emitter, waveform, watcher, app, locks>>

fsVars == <<folders, entries, folderRows, entryRows, folderSeq, entrySeq,
            diskDirs, diskFiles, pending, changes, entryTagRows, foreign_keys,
            removedEntries>>

vars == <<tagVars, fsVars, threadVars>>

(***************************************************************************)
(* Bounds and program constants                                            *)
(***************************************************************************)
MaxTagId == 2

\* Tags ever created in the specifications of the tag tree alone.
MaxTreeTagId == 3

\* Regular files under the base directory at any one time.
MaxFiles == 2

\* Changes made to the directory tree, by other programs and by the commands.
MaxChanges == 4

\* Rows ever inserted into table entries and into table folders.
MaxEntryId == 3

MaxFolderId == 3

ROOT_TAG_ID == -1

TagNames == {"", "a", "b", "c"}

Colors == {0, 7}

(***************************************************************************)
(* Helpers                                                                 *)
(***************************************************************************)
\* HashMap::remove
MapRemove(m, k) == [x \in (DOMAIN m) \ {k} |-> m[x]]

\* HashMap::insert
MapInsert(m, k, v) == [x \in (DOMAIN m) \cup {k} |-> IF x = k THEN v ELSE m[x]]

\* The tag and all its descendants, through children sets.
RECURSIVE TagSubtree(_, _)
TagSubtree(T, id) ==
    {id} \cup UNION {TagSubtree(T, c) : c \in T[id].children}

(***************************************************************************)
(* Store: table tags                                                       *)
(***************************************************************************)
\* Database::create: the root row of table tags.
RootTagRow ==
    [name |-> "", parent |-> ROOT_TAG_ID, position |-> 0, color |-> 0,
     deleted |-> "NULL"]

\* Database::create: the root tag of the model.
RootTag ==
    [name |-> "", parent_id |-> ROOT_TAG_ID, position |-> 0, color |-> 0,
     children |-> {}]

\* name TEXT NOT NULL UNIQUE: no row at all (deleted or not) holds the name.
TagNameFree(R, name) == \A i \in DOMAIN R : R[i].name # name

\* Database::read_tags: rows with deleted IS NULL, children rebuilt from parent.
ReadTags(R) ==
    LET live == {i \in DOMAIN R : R[i].deleted = "NULL"}
    IN  [i \in live |->
            [name      |-> R[i].name,
             parent_id |-> R[i].parent,
             position  |-> R[i].position,
             color     |-> R[i].color,
             children  |-> {c \in live : c # R[c].parent /\ R[c].parent = i}]]

\* Database::prune (table tags), run when every soft-deleted row is older than
\* 30 days: those rows are deleted, and ON DELETE CASCADE takes the rows below.
RECURSIVE TagCascade(_, _)
TagCascade(R, gone) ==
    LET more == {i \in DOMAIN R : i \notin gone /\ R[i].parent \in gone}
    IN  IF more = {} THEN gone ELSE TagCascade(R, gone \cup more)

PruneTags(R) ==
    LET gone == TagCascade(R, {i \in DOMAIN R : R[i].deleted # "NULL"})
    IN  [i \in (DOMAIN R) \ gone |-> R[i]]

(***************************************************************************)
(* Tag operations of DatabaseData                                          *)
(***************************************************************************)
\* DatabaseData::new_tag
NewTag(T, R, seq, name) ==
    IF \E i \in DOMAIN T : T[i].name = name
    THEN [tags |-> T, rows |-> R, seq |-> seq, res |-> "TagAlreadyExists", id |-> 0]
    ELSE
      LET position == Cardinality(T[ROOT_TAG_ID].children)
          id == seq + 1
      IN  IF ~TagNameFree(R, name)
          THEN \* INSERT fails on the UNIQUE constraint; `?` returns the error
               [tags |-> T, rows |-> R, seq |-> seq, res |-> "Rusqlite", id |-> 0]
          ELSE [tags |-> [MapInsert(T, id,
                              [name |-> name, parent_id |-> ROOT_TAG_ID,
                               position |-> position, color |-> 0, children |-> {}])
                            EXCEPT ![ROOT_TAG_ID].children = @ \cup {id}],
                rows |-> MapInsert(R, id,
                              [name |-> name, parent |-> ROOT_TAG_ID,
                               position |-> position, color |-> 0, deleted |-> "NULL"]),
                seq  |-> id,
                res  |-> "Ok",
                id   |-> id]

\* DatabaseData::rename_tag
RenameTag(T, R, tag_id, name) ==
    IF \E i \in DOMAIN T : T[i].name = name
    THEN [tags |-> T, rows |-> R, res |-> "TagAlreadyExists"]
    ELSE IF \E i \in DOMAIN R : i # tag_id /\ R[i].name = name
         THEN [tags |-> T, rows |-> R, res |-> "Rusqlite"]
         ELSE [tags |-> [T EXCEPT ![tag_id].name = name],
               rows |-> [R EXCEPT ![tag_id].name = name],
               res  |-> "Ok"]

\* set_tag_color without its UPDATE statement: the color reaches the model only.
SetTagColorModelOnly(T, R, tag_id, color) ==
    [tags |-> [T EXCEPT ![tag_id].color = color],
     rows |-> R,
     res  |-> "Ok"]

\* DatabaseData::set_tag_color
SetTagColor(T, R, tag_id, color) ==
    [tags |-> [T EXCEPT ![tag_id].color = color],
     rows |-> [R EXCEPT ![tag_id].color = color],
     res  |-> "Ok"]

\* delete_tag without the loop over the children.
DeleteTagAlone(T, R, tag_id) ==
    LET parent_id == T[tag_id].parent_id
        R1 == [R EXCEPT ![tag_id].deleted = "now"]
        T1 == MapRemove(T, tag_id)
        T2 == [T1 EXCEPT ![parent_id].children = @ \ {tag_id}]
    IN  [tags |-> T2, rows |-> R1, res |-> "Ok"]

\* DatabaseData::delete_tag: children first, then the tag itself.
RECURSIVE DeleteTag(_, _, _)
DeleteTag(T, R, tag_id) ==
    LET parent_id == T[tag_id].parent_id
        RECURSIVE DeleteAll(_, _)
        DeleteAll(st, todo) ==
            IF todo = {} THEN st
            ELSE LET c == CHOOSE x \in todo : TRUE
                     d == DeleteTag(st.tags, st.rows, c)
                 IN  DeleteAll(d, todo \ {c})
        sub == DeleteAll([tags |-> T, rows |-> R, res |-> "Ok"],
                         T[tag_id].children)
        R1 == [sub.rows EXCEPT ![tag_id].deleted = "now"]
        T1 == MapRemove(sub.tags, tag_id)
        T2 == [T1 EXCEPT ![parent_id].children = @ \ {tag_id}]
    IN  [tags |-> T2, rows |-> R1, res |-> "Ok"]

\* reorder_tag, lines 1425-1436: -1 stands for the number of children of the target.
ReorderToPos(T, to_parent_id, to_pos) ==
    IF to_pos = -1 THEN Cardinality(T[to_parent_id].children) ELSE to_pos

\* DatabaseData::reorder_tag
ReorderTag(T, R, tag_id, to_parent_id, to_pos_arg) ==
    LET from_pos       == T[tag_id].position
        from_parent_id == T[tag_id].parent_id
        to_pos         == ReorderToPos(T, to_parent_id, to_pos_arg)
    IN
    IF from_parent_id = to_parent_id /\ from_pos = to_pos
    THEN [tags |-> T, rows |-> R, res |-> "Ok"]
    ELSE IF from_parent_id = to_parent_id
    THEN \* move tag within the same parent
      LET R1 == IF from_pos < to_pos
                THEN [i \in DOMAIN R |->
                        IF R[i].parent = from_parent_id /\ R[i].position > from_pos
                           /\ R[i].position <= to_pos
                        THEN [R[i] EXCEPT !.position = @ - 1] ELSE R[i]]
                ELSE [i \in DOMAIN R |->
                        IF R[i].parent = from_parent_id /\ R[i].position < from_pos
                           /\ R[i].position >= to_pos
                        THEN [R[i] EXCEPT !.position = @ + 1] ELSE R[i]]
          R2 == [R1 EXCEPT ![tag_id].position = to_pos]
          T1 == IF from_pos < to_pos
                THEN [i \in DOMAIN T |->
                        IF T[i].parent_id = from_parent_id /\ T[i].position > from_pos
                           /\ T[i].position <= to_pos
                        THEN [T[i] EXCEPT !.position = @ - 1] ELSE T[i]]
                ELSE [i \in DOMAIN T |->
                        IF T[i].parent_id = from_parent_id /\ T[i].position < from_pos
                           /\ T[i].position >= to_pos
                        THEN [T[i] EXCEPT !.position = @ + 1] ELSE T[i]]
          T2 == [T1 EXCEPT ![tag_id].position = to_pos]
      IN  [tags |-> T2, rows |-> R2, res |-> "Ok"]
    ELSE \* move tag across different parents
      LET R1 == [i \in DOMAIN R |->
                    IF R[i].parent = from_parent_id /\ R[i].position > from_pos
                    THEN [R[i] EXCEPT !.position = @ - 1] ELSE R[i]]
          R2 == [i \in DOMAIN R1 |->
                    IF R1[i].parent = to_parent_id /\ R1[i].position >= to_pos
                    THEN [R1[i] EXCEPT !.position = @ + 1] ELSE R1[i]]
          R3 == [R2 EXCEPT ![tag_id].parent = to_parent_id,
                           ![tag_id].position = to_pos]
          T1 == [i \in DOMAIN T |->
                    IF T[i].parent_id = from_parent_id /\ T[i].position > from_pos
                    THEN [T[i] EXCEPT !.position = @ - 1]
                    ELSE IF T[i].parent_id = to_parent_id /\ T[i].position >= to_pos
                         THEN [T[i] EXCEPT !.position = @ + 1]
                         ELSE T[i]]
          T2 == [T1 EXCEPT ![tag_id].parent_id = to_parent_id,
                           ![tag_id].position = to_pos]
          T3 == [T2 EXCEPT ![from_parent_id].children = @ \ {tag_id}]
          T4 == [T3 EXCEPT ![to_parent_id].children = @ \cup {tag_id}]
      IN  [tags |-> T4, rows |-> R3, res |-> "Ok"]

(***************************************************************************)
(* Names and paths.  A file name is a sequence of characters, a path        *)
(* relative to the base directory is a sequence of file names.              *)
(***************************************************************************)
AsciiUpper ==
    <<"A", "B", "C", "D", "E", "F", "G", "H", "I", "J", "K", "L", "M",
      "N", "O", "P", "Q", "R", "S", "T", "U", "V", "W", "X", "Y", "Z">>

AsciiLower ==
    <<"a", "b", "c", "d", "e", "f", "g", "h", "i", "j", "k", "l", "m",
      "n", "o", "p", "q", "r", "s", "t", "u", "v", "w", "x", "y", "z">>

\* str::to_ascii_lowercase
ToAsciiLowercase(str) ==
    [i \in 1 .. Len(str) |->
        CHOOSE out \in
          {IF \E k \in DOMAIN AsciiUpper : AsciiUpper[k] = c
           THEN AsciiLower[CHOOSE k \in DOMAIN AsciiUpper : AsciiUpper[k] = c]
           ELSE c
           : c \in {str[i]}} : TRUE]

\* Path::file_name, Path::parent, Path::join
FileName(path) == path[Len(path)]

Parent(path) == SubSeq(path, 1, Len(path) - 1)

Join(path, name) == Append(path, name)

\* Option::None of Path::extension
NoExtension == <<"None">>

\* Path::extension: the part of the file name after its last '.', and none
\* when the name has no '.' or its only '.' is the first character.
Extension(path) ==
    CHOOSE out \in
      {IF dots = {} \/ dots = {1} THEN NoExtension
       ELSE SubSeq(name, (CHOOSE i \in dots : \A j \in dots : j <= i) + 1, Len(name))
       : name \in {FileName(path)},
         dots \in {{i \in 1 .. Len(FileName(path)) : FileName(path)[i] = "."}}} : TRUE

\* is_audio_file
is_audio_file(path) ==
    \E ext \in {Extension(path)} :
        /\ ext # NoExtension
        /\ \E lower \in {ToAsciiLowercase(ext)} :
              lower \in {<<"w", "a", "v">>, <<"m", "p", "3">>,
                         <<"f", "l", "a", "c">>, <<"o", "g", "g">>}

\* is_hidden_file
is_hidden_file(path) ==
    LET name == FileName(path) IN Len(name) > 0 /\ name[1] = "."

(***************************************************************************)
(* The directory tree under the base directory                             *)
(***************************************************************************)
DirD == <<"d">>

DirE == <<"e">>

DirHidden == <<".", "g">>

FileAWav == <<"a", ".", "W", "a", "v">>

FileHiddenOgg == <<".", "h", ".", "o", "g", "g">>

FileTxt == <<"n", ".", "t", "x", "t">>

\* The directories and the files that may exist under the base directory.
DirPaths == {<<DirD>>, <<DirE>>, <<DirD, DirE>>, <<DirHidden>>}

FilePaths ==
    {<<FileAWav>>, <<DirD, FileAWav>>, <<DirE, FileAWav>>, <<DirHidden, FileAWav>>,
     <<FileHiddenOgg>>, <<FileTxt>>}

\* The order in which fs::read_dir lists the names of a directory.
ReadDirOrder == <<DirD, DirE, DirHidden, FileAWav, FileHiddenOgg, FileTxt>>

\* Path::starts_with
StartsWith(path, prefix) ==
    Len(prefix) <= Len(path) /\ SubSeq(path, 1, Len(prefix)) = prefix

\* The path with its prefix old replaced by new (fs::rename of a directory).
Rebase(path, old, new) == new \o SubSeq(path, Len(old) + 1, Len(path))

(***************************************************************************)
(* DatabaseData and the store, as one value the operations transform:      *)
(*   folders : FolderId -> Folder      entries : EntryId -> Entry          *)
(*   frows   : table folders           erows   : table entries             *)
(*   fseq, eseq : sqlite_sequence of the two tables                        *)
(*   trows   : table tags              etags   : table entry_tag           *)
(*   fk      : foreign keys are enforced                                   *)
(*   res : "Ok", "Err" (the Result), or "Panic" (an unwrap on None)        *)
(*   dbg : a debug_assert! failed on the way (a panic in a debug build)    *)
(***************************************************************************)
ROOT_FOLDER_ID == -1

\* Option::None for a FolderId or an EntryId
NoId == 0

EmptyMap == <<>>

\* The name of the base directory, the name of the root folder.
BaseName == <<"b", "a", "s", "e">>

\* Folder::new
NewFolder(id, parent_id, name, path) ==
    [id |-> id, parent_id |-> parent_id, name |-> name, path |-> path,
     sub_folders |-> EmptyMap, entries |-> EmptyMap]

\* Entry::new, with the id its caller assigns
NewEntry(id, path, folder_id) ==
    [id |-> id, folder_id |-> folder_id, path |-> path, file_name |-> FileName(path),
     tag_ids |-> {}]

RootFolderRow == [parent |-> ROOT_FOLDER_ID, name |-> <<>>, deleted |-> "NULL"]

\* HashMap::values, as a list in a fixed iteration order
RECURSIVE SetToSeq(_)
SetToSeq(S) ==
    IF S = {} THEN <<>>
    ELSE LET x == CHOOSE y \in S : TRUE IN <<x>> \o SetToSeq(S \ {x})

MapValues(m) == SetToSeq({m[k] : k \in DOMAIN m})

Panic(s) == [s EXCEPT !.res = "Panic"]

Failed(s) == [s EXCEPT !.res = "Err"]

\* DatabaseData::get_folder_by_path
RECURSIVE GetFolderFrom(_, _, _, _)
GetFolderFrom(F, folder_id, path, i) ==
    IF i > Len(path) THEN folder_id
    ELSE IF folder_id = NoId THEN NoId
    ELSE LET sub == F[folder_id].sub_folders
         IN  IF path[i] \in DOMAIN sub /\ sub[path[i]] \in DOMAIN F
             THEN GetFolderFrom(F, sub[path[i]], path, i + 1)
             ELSE GetFolderFrom(F, NoId, path, i + 1)

get_folder_by_path(F, path) == GetFolderFrom(F, ROOT_FOLDER_ID, path, 1)

\* DatabaseData::get_entry_id
get_entry_id(F, path) ==
    LET folder_id == get_folder_by_path(F, Parent(path)) IN
    IF folder_id # NoId /\ FileName(path) \in DOMAIN F[folder_id].entries
    THEN F[folder_id].entries[FileName(path)]
    ELSE NoId

(***************************************************************************)
(* Reading the directory tree.                                             *)
(*                                                                         *)
(* Throughout, CHOOSE out \in {e : x \in {v}} : TRUE stands for             *)
(* LET x == v IN e: it names the value of v, computed once.                *)
(***************************************************************************)
EmptyDiff ==
    [new_folders |-> <<>>, deleted_folders |-> <<>>,
     new_entries |-> <<>>, deleted_entries |-> <<>>,
     existing_folders |-> {}, existing_entries |-> {}, panic |-> FALSE]

\* DatabaseData::read_dir.  ReadDirFrom is the loop over the names of the
\* directory, from the i-th name of the listing on.
RECURSIVE read_dir(_, _, _, _, _)
RECURSIVE ReadDirFrom(_, _, _, _, _, _, _)
ReadDirFrom(F, dirs, files, path, folder_id, i, acc) ==
    IF i > Len(ReadDirOrder) \/ acc.panic THEN acc
    ELSE
      LET file_name == ReadDirOrder[i]
          child     == Join(path, file_name)
          sub_folder_id ==
              IF folder_id # NoId /\ file_name \in DOMAIN F[folder_id].sub_folders
              THEN F[folder_id].sub_folders[file_name] ELSE NoId
          entry_id ==
              IF folder_id # NoId /\ file_name \in DOMAIN F[folder_id].entries
              THEN F[folder_id].entries[file_name] ELSE NoId
      IN
      IF child \notin (dirs \cup files) \/ is_hidden_file(<<file_name>>)
      THEN ReadDirFrom(F, dirs, files, path, folder_id, i + 1, acc)
      ELSE IF child \in dirs
      THEN
        CHOOSE out \in
          {ReadDirFrom(F, dirs, files, path, folder_id, i + 1, acc2)
           : acc2 \in
               {[acc EXCEPT
                    !.existing_folders =
                        IF sub_folder_id # NoId THEN @ \cup {sub_folder_id} ELSE @,
                    !.new_folders =
                        (IF sub_folder_id # NoId THEN @ ELSE Append(@, child))
                            \o diff.new_folders,
                    !.deleted_folders = @ \o diff.deleted_folders,
                    !.new_entries = @ \o diff.new_entries,
                    !.deleted_entries = @ \o diff.deleted_entries,
                    !.panic = diff.panic]
                : diff \in {read_dir(F, dirs, files, child, sub_folder_id)}}} : TRUE
      ELSE IF is_audio_file(<<file_name>>)
      THEN
        CHOOSE out \in
          {ReadDirFrom(F, dirs, files, path, folder_id, i + 1, acc1)
           : acc1 \in
               {IF entry_id # NoId
                THEN [acc EXCEPT !.existing_entries = @ \cup {entry_id}]
                ELSE [acc EXCEPT !.new_entries = Append(@, child)]}} : TRUE
      ELSE ReadDirFrom(F, dirs, files, path, folder_id, i + 1, acc)

read_dir(F, dirs, files, path, folder_id) ==
    IF folder_id # NoId /\ folder_id \notin DOMAIN F
    THEN [EmptyDiff EXCEPT !.panic = TRUE]
    ELSE
      CHOOSE out \in
        {IF folder_id = NoId \/ acc.panic THEN acc
         ELSE [acc EXCEPT
                 !.deleted_folders = @ \o
                     SelectSeq(MapValues(F[folder_id].sub_folders),
                               LAMBDA id : id \notin acc.existing_folders),
                 !.deleted_entries = @ \o
                     SelectSeq(MapValues(F[folder_id].entries),
                               LAMBDA id : id \notin acc.existing_entries)]
         : acc \in {ReadDirFrom(F, dirs, files, path, folder_id, 1, EmptyDiff)}} : TRUE

(***************************************************************************)
(* Folders                                                                 *)
(***************************************************************************)
\* The body of the loops of add_folders_serial and add_folders_batch: the
\* components of one path from the i-th on, below folder_id.  The serial
\* variant looks a missing folder up in the table, the batch variant in the
\* rows Q it queried before the loop (the root row left out).
RECURSIVE AddFolderPath(_, _, _, _, _, _)
AddFolderPath(s, path, i, folder_id, batch, Q) ==
    IF s.res # "Ok" \/ i > Len(path) THEN s
    ELSE IF folder_id \notin DOMAIN s.folders THEN Panic(s)
    ELSE
      LET folder == s.folders[folder_id]
          sub_folder_name == path[i]
      IN
      IF sub_folder_name \in DOMAIN folder.sub_folders
      THEN AddFolderPath(s, path, i + 1, folder.sub_folders[sub_folder_name], batch, Q)
      ELSE
        LET rows  == IF batch THEN Q ELSE s.frows
            hit   == {r \in DOMAIN rows :
                        rows[r].parent = folder_id /\ rows[r].name = sub_folder_name}
            new_folder_id == IF hit # {} THEN CHOOSE r \in hit : TRUE ELSE s.fseq + 1
            frows1 ==
                IF hit # {}
                THEN IF rows[new_folder_id].deleted # "NULL"
                        /\ new_folder_id \in DOMAIN s.frows
                     THEN [s.frows EXCEPT ![new_folder_id].deleted = "NULL"]
                     ELSE s.frows
                ELSE MapInsert(s.frows, new_folder_id,
                               [parent |-> folder_id, name |-> sub_folder_name,
                                deleted |-> "NULL"])
            new_folder == NewFolder(new_folder_id, folder_id, sub_folder_name,
                                    Join(folder.path, sub_folder_name))
            folders1 == [s.folders EXCEPT
                            ![folder_id].sub_folders =
                                MapInsert(@, sub_folder_name, new_folder_id)]
        IN  CHOOSE out \in
              {AddFolderPath(s1, path, i + 1, new_folder_id, batch, Q)
               : s1 \in {[s EXCEPT
                            !.frows = frows1,
                            !.fseq = IF hit # {} THEN @ ELSE new_folder_id,
                            !.folders = MapInsert(folders1, new_folder_id,
                                                  new_folder)]}} : TRUE

RECURSIVE AddFolderPaths(_, _, _, _, _)
AddFolderPaths(s, paths, k, batch, Q) ==
    IF s.res # "Ok" \/ k > Len(paths) THEN s
    ELSE CHOOSE out \in
           {AddFolderPaths(s1, paths, k + 1, batch, Q)
            : s1 \in {AddFolderPath(s, paths[k], 1, ROOT_FOLDER_ID, batch, Q)}} : TRUE

\* DatabaseData::add_folders_serial
add_folders_serial(s, paths) == AddFolderPaths(s, paths, 1, FALSE, EmptyMap)

\* DatabaseData::add_folders_batch
add_folders_batch(s, paths) ==
    CHOOSE out \in
      {AddFolderPaths(s, paths, 1, TRUE, query_rows)
       : query_rows \in
           {[r \in (DOMAIN s.frows) \ {ROOT_FOLDER_ID} |-> s.frows[r]]}} : TRUE

\* DatabaseData::add_folders
add_folders(s, paths) ==
    IF Len(paths) * 4 < Cardinality(DOMAIN s.folders)
    THEN add_folders_serial(s, paths)
    ELSE add_folders_batch(s, paths)

(***************************************************************************)
(* Entries                                                                 *)
(***************************************************************************)
\* The first statement of add_entries_serial and add_entries_batch: the new
\* entries of the paths whose folder the model knows, ids not yet assigned.
RECURSIVE NewEntriesOf(_, _, _)
NewEntriesOf(F, paths, k) ==
    IF k > Len(paths) THEN <<>>
    ELSE LET folder_id == get_folder_by_path(F, Parent(paths[k]))
         IN  (IF folder_id = NoId THEN <<>>
              ELSE <<NewEntry(NoId, paths[k], folder_id)>>)
             \o NewEntriesOf(F, paths, k + 1)

\* SELECT entry_tag.entry_id, entry_tag.tag_id FROM entry_tag JOIN entries
\* JOIN tags WHERE entries.deleted IS NULL AND tags.deleted IS NULL
QueryEntryTags(s) ==
    {p \in s.etags :
        /\ p[1] \in DOMAIN s.erows /\ s.erows[p[1]].deleted = "NULL"
        /\ p[2] \in DOMAIN s.trows /\ s.trows[p[2]].deleted = "NULL"}

\* The loop that gives each new entry the id of its row: the row of the same
\* (folder_id, file_name) if there is one, restored if it was deleted, and a
\* fresh row otherwise.  The batch variant looks it up in the rows Q it
\* queried before the loop; the serial variant also reads the tags of an
\* existing row.
RECURSIVE AssignEntryIds(_, _, _, _, _)
AssignEntryIds(s, new_entries, k, batch, Q) ==
    IF k > Len(new_entries) THEN [s |-> s, new_entries |-> new_entries]
    ELSE
      LET entry == new_entries[k]
          rows  == IF batch THEN Q ELSE s.erows
          hit   == {r \in DOMAIN rows :
                        rows[r].folder_id = entry.folder_id
                        /\ rows[r].file_name = entry.file_name}
          id    == IF hit # {} THEN CHOOSE r \in hit : TRUE ELSE s.eseq + 1
          erows1 ==
              IF hit # {}
              THEN IF rows[id].deleted # "NULL" /\ id \in DOMAIN s.erows
                   THEN [s.erows EXCEPT ![id].deleted = "NULL"]
                   ELSE s.erows
              ELSE MapInsert(s.erows, id,
                             [file_name |-> entry.file_name,
                              folder_id |-> entry.folder_id, deleted |-> "NULL"])
      IN  CHOOSE out \in
            {AssignEntryIds(s1, new_entries1, k + 1, batch, Q)
             : s1 \in {[s EXCEPT !.erows = erows1,
                                 !.eseq = IF hit # {} THEN @ ELSE id]},
               new_entries1 \in
                 {[new_entries EXCEPT
                     ![k].id = id,
                     ![k].tag_ids =
                         IF hit # {} /\ ~batch
                         THEN {p[2] : p \in {q \in QueryEntryTags(
                                                    [s EXCEPT !.erows = erows1]) :
                                                q[1] = id}}
                         ELSE @]}} : TRUE

\* The loops that add the new entries to the data in memory.
RECURSIVE InsertEntries(_, _, _)
InsertEntries(s, new_entries, k) ==
    IF k > Len(new_entries) THEN s
    ELSE LET entry == new_entries[k]
             folders1 == [s.folders EXCEPT
                             ![entry.folder_id].entries =
                                 MapInsert(@, entry.file_name, entry.id)]
         IN  CHOOSE out \in
               {InsertEntries(s1, new_entries, k + 1)
                : s1 \in {[s EXCEPT !.folders = folders1,
                                    !.entries = MapInsert(@, entry.id, entry)]}} : TRUE

\* The last loop of add_entries_batch: every queried entry_tag row whose
\* entry is in the map adds its tag to that entry.
TagQueriedEntries(s) ==
    CHOOSE out \in
      {[s EXCEPT !.entries =
           [e \in DOMAIN s.entries |->
               [s.entries[e] EXCEPT
                   !.tag_ids = @ \cup {p[2] : p \in {q \in query : q[1] = e}}]]]
       : query \in {QueryEntryTags(s)}} : TRUE

\* The two variants of add_entries differ in where they look the rows up and
\* in how they read the tags of the entries.
AddEntriesWith(s, paths, batch, Q) ==
    CHOOSE out \in
      {IF batch THEN TagQueriedEntries(s1) ELSE s1
       : s1 \in {InsertEntries(a.s, a.new_entries, 1)
                 : a \in {AssignEntryIds(s, new_entries, 1, batch, Q)
                          : new_entries \in {NewEntriesOf(s.folders, paths, 1)}}}}
      : TRUE

\* DatabaseData::add_entries_serial
add_entries_serial(s, paths) == AddEntriesWith(s, paths, FALSE, EmptyMap)

\* DatabaseData::add_entries_batch
add_entries_batch(s, paths) == AddEntriesWith(s, paths, TRUE, s.erows)

\* DatabaseData::add_entries
add_entries(s, paths) ==
    IF Len(paths) * 4 < Cardinality(DOMAIN s.entries)
    THEN add_entries_serial(s, paths)
    ELSE add_entries_batch(s, paths)

\* remove_entry without its UPDATE: the row stays as it is.
KeepEntryRow(R, entry_id) == R

\* UPDATE entries SET deleted = datetime('now') WHERE id = ?
MarkEntryDeleted(R, entry_id) ==
    IF entry_id \in DOMAIN R THEN [R EXCEPT ![entry_id].deleted = "now"] ELSE R

\* What remove_entry and remove_entries do for one entry: the entry leaves
\* the map, its row is marked deleted and its folder forgets its file name.
\* remove_entry marks the row before it looks for the folder (row_first),
\* remove_entries after.
DropEntry(s, entry_id, row_first) ==
    IF entry_id \notin DOMAIN s.entries THEN Panic(s)
    ELSE
      LET entry == s.entries[entry_id] IN
      IF entry.folder_id \notin DOMAIN s.folders
      THEN Panic([s EXCEPT
                    !.entries = MapRemove(@, entry_id),
                    !.erows = IF row_first THEN MarkEntryDeleted(@, entry_id) ELSE @])
      ELSE [s EXCEPT
              !.entries = MapRemove(@, entry_id),
              !.folders[entry.folder_id].entries = MapRemove(@, entry.file_name),
              !.erows = MarkEntryDeleted(@, entry_id),
              !.dbg = @ \/ entry.file_name
                              \notin DOMAIN s.folders[entry.folder_id].entries]

\* DatabaseData::remove_entry
remove_entry(s, entry_id) == DropEntry(s, entry_id, TRUE)

\* DatabaseData::remove_entries
RECURSIVE remove_entries(_, _)
remove_entries(s, entry_ids) ==
    IF s.res # "Ok" \/ entry_ids = <<>> THEN s
    ELSE CHOOSE out \in
           {remove_entries(s1, rest)
            : s1 \in {DropEntry(s, id, FALSE) : id \in {Head(entry_ids)}},
              rest \in {Tail(entry_ids)}} : TRUE

\* FOREIGN KEY (entry_id) REFERENCES entries(id) ON DELETE CASCADE: the
\* entry_tag rows left when table entries is down to the rows erows.
EntryTagCascade(s, erows) ==
    IF s.fk THEN {p \in s.etags : p[1] \in DOMAIN erows} ELSE s.etags

\* The statements of a failed transaction stay in the store.
KeepsStatements(s, partial) == partial

\* A transaction that fails in one of its statements or in its commit (the
\* input tx_fails): the `?` returns and the dropped Transaction rolls back what
\* its statements did, before any of the model is touched.
Rollback(s, partial) == s

\* DatabaseData::move_entry
move_entry(s, entry_id, new_path) ==
    IF entry_id \notin DOMAIN s.entries THEN Panic(s)
    ELSE
      LET entry == s.entries[entry_id]
          old_folder_id == entry.folder_id
          new_folder_id == get_folder_by_path(s.folders, Parent(new_path))
          old_file_name == entry.file_name
          new_file_name == FileName(new_path)
      IN
      IF new_folder_id = NoId THEN Panic(s)
      ELSE
        LET erows1 == [r \in {x \in DOMAIN s.erows :
                                ~(s.erows[x].folder_id = new_folder_id
                                  /\ s.erows[x].file_name = new_file_name)}
                         |-> s.erows[r]]
            erows2 == IF entry_id \in DOMAIN erows1
                      THEN [erows1 EXCEPT ![entry_id].folder_id = new_folder_id,
                                          ![entry_id].file_name = new_file_name]
                      ELSE erows1
        IN
        IF s.tx_fails
        THEN Failed(Rollback(s, [s EXCEPT !.erows = erows2,
                                          !.etags = EntryTagCascade(s, erows1)]))
        ELSE IF old_folder_id \notin DOMAIN s.folders
        THEN Panic([s EXCEPT !.erows = erows2,
                             !.etags = EntryTagCascade(s, erows1)])
        ELSE
          LET folders1 == [s.folders EXCEPT
                             ![old_folder_id].entries = MapRemove(@, old_file_name)]
              folders2 == [folders1 EXCEPT
                             ![new_folder_id].entries =
                                 MapInsert(@, new_file_name, entry_id)]
          IN  [s EXCEPT
                 !.erows = erows2,
                 !.etags = EntryTagCascade(s, erows1),
                 !.folders = folders2,
                 !.entries[entry_id] =
                     [@ EXCEPT !.folder_id = new_folder_id, !.path = new_path,
                               !.file_name = new_file_name],
                 !.dbg = @ \/ old_file_name
                                 \notin DOMAIN s.folders[old_folder_id].entries]

\* DatabaseData::move_entry_to_folder
move_entry_to_folder(s, entry_id, folder_id) ==
    IF entry_id \notin DOMAIN s.entries \/ folder_id \notin DOMAIN s.folders
    THEN Panic(s)
    ELSE
      LET entry == s.entries[entry_id]
          file_name == entry.file_name
          old_folder_id == entry.folder_id
          new_path == Join(s.folders[folder_id].path, file_name)
          erows1 == [r \in {x \in DOMAIN s.erows :
                              ~(s.erows[x].folder_id = folder_id
                                /\ s.erows[x].file_name = file_name)}
                       |-> s.erows[r]]
          erows2 == IF entry_id \in DOMAIN erows1
                    THEN [erows1 EXCEPT ![entry_id].folder_id = folder_id]
                    ELSE erows1
      IN
      IF s.tx_fails
      THEN Failed(Rollback(s, [s EXCEPT !.erows = erows2,
                                        !.etags = EntryTagCascade(s, erows1)]))
      ELSE IF old_folder_id \notin DOMAIN s.folders
      THEN Panic([s EXCEPT !.erows = erows2,
                           !.etags = EntryTagCascade(s, erows1)])
      ELSE
        LET folders1 == [s.folders EXCEPT
                           ![old_folder_id].entries = MapRemove(@, file_name)]
            folders2 == [folders1 EXCEPT
                           ![folder_id].entries = MapInsert(@, file_name, entry_id)]
        IN  [s EXCEPT
               !.erows = erows2,
               !.etags = EntryTagCascade(s, erows1),
               !.folders = folders2,
               !.entries[entry_id] =
                   [@ EXCEPT !.folder_id = folder_id, !.path = new_path],
               !.dbg = @ \/ file_name \notin DOMAIN s.folders[old_folder_id].entries]

(***************************************************************************)
(* Removing and moving folders, scanning                                   *)
(***************************************************************************)
\* DatabaseData::remove_folder.  RemoveSubFolders is its loop over the
\* sub-folders.
RECURSIVE remove_folder(_, _)
RECURSIVE RemoveSubFolders(_, _)
RemoveSubFolders(s, sub_folders) ==
    IF s.res # "Ok" \/ sub_folders = <<>> THEN s
    ELSE CHOOSE out \in
           {RemoveSubFolders(s1, rest)
            : s1 \in {remove_folder(s, id) : id \in {Head(sub_folders)}},
              rest \in {Tail(sub_folders)}} : TRUE

remove_folder(s, folder_id) ==
    IF folder_id \notin DOMAIN s.folders THEN Panic(s)
    ELSE
      LET folder  == s.folders[folder_id] IN
      CHOOSE out \in
        {IF s2.res # "Ok" THEN s2
         ELSE
           LET erows1 == [r \in DOMAIN s2.erows |->
                             IF s2.erows[r].folder_id = folder_id
                             THEN [s2.erows[r] EXCEPT !.deleted = "now"]
                             ELSE s2.erows[r]]
               folders1 == MapRemove(s2.folders, folder_id)
           IN
           IF folder.parent_id \notin DOMAIN folders1
           THEN Panic([s2 EXCEPT !.erows = erows1, !.folders = folders1])
           ELSE [s2 EXCEPT
                   !.erows = erows1,
                   !.folders = [folders1 EXCEPT
                                   ![folder.parent_id].sub_folders =
                                       MapRemove(@, folder.name)],
                   !.dbg = @ \/ folder.name
                                   \notin DOMAIN folders1[folder.parent_id].sub_folders]
         : s2 \in {remove_entries(s1, entry_ids)
                   : s1 \in {RemoveSubFolders(s, sub_folders)
                             : sub_folders \in {MapValues(folder.sub_folders)}},
                     entry_ids \in {MapValues(folder.entries)}}} : TRUE

\* DatabaseData::remove_folders: an Err of remove_folder is logged, the loop
\* goes on; a panic ends it.
RECURSIVE remove_folders(_, _)
remove_folders(s, folder_ids) ==
    IF s.res = "Panic" \/ folder_ids = <<>> THEN s
    ELSE CHOOSE out \in
           {remove_folders(IF s1.res = "Err" THEN [s1 EXCEPT !.res = "Ok"] ELSE s1,
                           rest)
            : s1 \in {remove_folder(s, id) : id \in {Head(folder_ids)}},
              rest \in {Tail(folder_ids)}} : TRUE

\* DatabaseData::update_folder_path
RECURSIVE update_folder_path(_, _, _)
RECURSIVE UpdateEntryPaths(_, _, _)
RECURSIVE UpdateSubFolderPaths(_, _, _)
UpdateEntryPaths(s, entry_ids, path) ==
    IF s.res # "Ok" \/ entry_ids = <<>> THEN s
    ELSE LET entry_id == Head(entry_ids) IN
         IF entry_id \notin DOMAIN s.entries THEN Panic(s)
         ELSE CHOOSE out \in
                {UpdateEntryPaths(s1, rest, path)
                 : s1 \in {[s EXCEPT !.entries[entry_id].path =
                                         Join(path, s.entries[entry_id].file_name)]},
                   rest \in {Tail(entry_ids)}} : TRUE

UpdateSubFolderPaths(s, sub_folder_ids, path) ==
    IF s.res # "Ok" \/ sub_folder_ids = <<>> THEN s
    ELSE LET sub_folder_id == Head(sub_folder_ids) IN
         IF sub_folder_id \notin DOMAIN s.folders THEN Panic(s)
         ELSE CHOOSE out \in
                {UpdateSubFolderPaths(s1, rest, path)
                 : s1 \in {update_folder_path(s, sub_folder_id,
                               Join(path, s.folders[sub_folder_id].name))},
                   rest \in {Tail(sub_folder_ids)}} : TRUE

update_folder_path(s, folder_id, path) ==
    IF folder_id \notin DOMAIN s.folders THEN Panic(s)
    ELSE
      LET folder == s.folders[folder_id] IN
      CHOOSE out \in
        {UpdateSubFolderPaths(s2, MapValues(folder.sub_folders), path)
         : s2 \in {UpdateEntryPaths(s1, MapValues(folder.entries), path)
                   : s1 \in {[s EXCEPT !.folders[folder_id].path = path]}}} : TRUE

\* ON DELETE CASCADE of a DELETE on table folders, where foreign keys are
\* enforced: the rows below the deleted rows go too.
RECURSIVE FolderCascade(_, _)
FolderCascade(R, gone) ==
    LET more == {r \in DOMAIN R : r \notin gone /\ R[r].parent \in gone}
    IN  IF more = {} THEN gone ELSE FolderCascade(R, gone \cup more)

\* DatabaseData::scan_dir, called by move_folder with a relative path:
\* read_dir asserts an absolute path in a debug build and otherwise reads the
\* relative path, which names no directory.
scan_dir(s, path) == Failed([s EXCEPT !.dbg = TRUE])

\* DatabaseData::move_folder
move_folder(s, old_path, new_path) ==
    LET folder_id == get_folder_by_path(s.folders, old_path) IN
    IF folder_id = NoId THEN scan_dir(s, new_path)
    ELSE
      LET folder == s.folders[folder_id]
          new_parent_id == get_folder_by_path(s.folders, Parent(new_path))
      IN
      IF folder.parent_id \notin DOMAIN s.folders \/ new_parent_id = NoId
      THEN Panic(s)
      ELSE
        LET old_parent_id == folder.parent_id
            new_folder_name == FileName(new_path)
            hit  == {r \in DOMAIN s.frows :
                        s.frows[r].parent = folder_id
                        /\ s.frows[r].name = new_folder_name}
            gone == IF s.fk THEN FolderCascade(s.frows, hit) ELSE hit
            frows1 == [r \in (DOMAIN s.frows) \ gone |-> s.frows[r]]
            erows1 == [r \in {x \in DOMAIN s.erows :
                                 s.fk => s.erows[x].folder_id \notin gone}
                         |-> s.erows[r]]
            unique == \A r \in DOMAIN frows1 :
                          r # folder_id =>
                              ~(frows1[r].parent = new_parent_id
                                /\ frows1[r].name = new_folder_name)
        IN
        IF ~unique \/ s.tx_fails   \* UNIQUE (parent, name), or the input
        THEN Failed(Rollback(s, [s EXCEPT !.frows = frows1, !.erows = erows1,
                                          !.etags = EntryTagCascade(s, erows1)]))
        ELSE
          LET frows2 == IF folder_id \in DOMAIN frows1
                        THEN [frows1 EXCEPT ![folder_id].parent = new_parent_id,
                                            ![folder_id].name = new_folder_name]
                        ELSE frows1
              folders1 == [s.folders EXCEPT
                             ![old_parent_id].sub_folders =
                                 MapRemove(@, FileName(old_path))]
              folders2 == [folders1 EXCEPT
                             ![new_parent_id].sub_folders =
                                 MapInsert(@, new_folder_name, folder_id)]
              folders3 == [folders2 EXCEPT ![folder_id].name = new_folder_name]
          IN  CHOOSE out \in
                {update_folder_path(s1, id, new_path)
                 : s1 \in {[s EXCEPT
                              !.frows = frows2, !.erows = erows1, !.folders = folders3,
                              !.etags = EntryTagCascade(s, erows1),
                              !.dbg = @ \/ FileName(old_path) \notin
                                         DOMAIN s.folders[old_parent_id].sub_folders]},
                   id \in {folder_id}} : TRUE

\* base_path joined with a relative path, as a list of path components.
AbsolutePath(path) == <<<<"/">>, BaseName>> \o path

\* DatabaseData::read_dir_folders.  ReadDirFoldersFrom is the loop over the
\* names of the directory; the new folders are absolute paths.
RECURSIVE read_dir_folders(_, _, _, _)
RECURSIVE ReadDirFoldersFrom(_, _, _, _, _, _)
ReadDirFoldersFrom(F, dirs, path, folder_id, i, acc) ==
    IF i > Len(ReadDirOrder) \/ acc.panic THEN acc
    ELSE
      LET file_name == ReadDirOrder[i]
          child     == Join(path, file_name)
      IN
      IF child \notin dirs \/ is_hidden_file(<<file_name>>)
      THEN ReadDirFoldersFrom(F, dirs, path, folder_id, i + 1, acc)
      ELSE
        LET sub_folder_id ==
                IF folder_id # NoId /\ file_name \in DOMAIN F[folder_id].sub_folders
                THEN F[folder_id].sub_folders[file_name] ELSE NoId
        IN  CHOOSE out \in
              {ReadDirFoldersFrom(F, dirs, path, folder_id, i + 1, acc2)
               : acc2 \in
                   {[acc EXCEPT
                        !.existing_folders =
                            (IF sub_folder_id # NoId THEN @ \cup {sub_folder_id} ELSE @)
                                \cup diff.existing_folders,
                        !.new_folders =
                            (IF sub_folder_id # NoId THEN @
                             ELSE Append(@, AbsolutePath(child)))
                                \o diff.new_folders,
                        !.panic = diff.panic]
                    : diff \in {read_dir_folders(F, dirs, child,
                                                  sub_folder_id)}}} : TRUE

read_dir_folders(F, dirs, path, folder_id) ==
    IF folder_id # NoId /\ folder_id \notin DOMAIN F
    THEN [EmptyDiff EXCEPT !.panic = TRUE]
    ELSE ReadDirFoldersFrom(F, dirs, path, folder_id, 1, EmptyDiff)

\* DatabaseData::scan_folders
scan_folders(s, dirs) ==
    CHOOSE out \in
      {IF diff.panic THEN Panic(s)
       ELSE CHOOSE out1 \in
              {IF s1.res # "Ok" THEN s1 ELSE add_folders(s1, diff.new_folders)
               : s1 \in {remove_folders(s, removed_folders)
                         : removed_folders \in
                             {SelectSeq(SetToSeq(DOMAIN s.folders),
                                        LAMBDA id : id \notin diff.existing_folders)}}}
              : TRUE
       : diff \in {read_dir_folders(s.folders, dirs, <<>>, ROOT_FOLDER_ID)}} : TRUE

\* DatabaseData::sync_changes
sync_changes(s, diff) ==
    CHOOSE out \in
      {IF s3.res # "Ok" THEN s3 ELSE add_entries(s3, diff.new_entries)
       : s3 \in
           {IF s2.res # "Ok" THEN s2 ELSE add_folders(s2, diff.new_folders)
            : s2 \in
                {IF s1.res # "Ok" THEN s1
                 ELSE remove_folders(s1, diff.deleted_folders)
                 : s1 \in {remove_entries(s, diff.deleted_entries)}}}} : TRUE

\* DatabaseData::sync_deleted
sync_deleted(s) ==
    [s EXCEPT
        !.erows = [r \in DOMAIN s.erows |->
                      IF s.erows[r].deleted = "NULL" /\ r \notin DOMAIN s.entries
                      THEN [s.erows[r] EXCEPT !.deleted = "now"] ELSE s.erows[r]],
        !.frows = [r \in DOMAIN s.frows |->
                      IF s.frows[r].deleted = "NULL" /\ r \notin DOMAIN s.folders
                      THEN [s.frows[r] EXCEPT !.deleted = "now"] ELSE s.frows[r]]]

\* DatabaseData::scan
scan(s, dirs, files) ==
    CHOOSE out \in
      {IF diff.panic THEN Panic(s)
       ELSE CHOOSE out1 \in
              {IF s1.res # "Ok" THEN s1 ELSE sync_deleted(s1)
               : s1 \in {sync_changes(s, diff)}} : TRUE
       : diff \in {read_dir(s.folders, dirs, files, <<>>, ROOT_FOLDER_ID)}} : TRUE

(***************************************************************************)
(* Tags of entries                                                         *)
(***************************************************************************)
\* DatabaseData::add_tag_for_entry: the tag id goes into tag_ids before the
\* INSERT, which fails on PRIMARY KEY (entry_id, tag_id) and, where foreign
\* keys are enforced, on an id that has no row.
add_tag_for_entry(s, entry_id, tag_id) ==
    IF entry_id \notin DOMAIN s.entries THEN Panic(s)
    ELSE IF tag_id \in s.entries[entry_id].tag_ids
    THEN [s EXCEPT !.res = "TagAlreadyExistsForEntry"]
    ELSE
      LET s1 == [s EXCEPT !.entries[entry_id].tag_ids = @ \cup {tag_id}] IN
      IF \/ <<entry_id, tag_id>> \in s.etags
         \/ s.fk /\ (entry_id \notin DOMAIN s.erows \/ tag_id \notin DOMAIN s.trows)
      THEN Failed(s1)
      ELSE [s1 EXCEPT !.etags = @ \cup {<<entry_id, tag_id>>}]

\* DatabaseData::remove_tag_for_entry
remove_tag_for_entry(s, entry_id, tag_id) ==
    IF entry_id \notin DOMAIN s.entries THEN Panic(s)
    ELSE [s EXCEPT !.etags = @ \ {<<entry_id, tag_id>>},
                   !.entries[entry_id].tag_ids = @ \ {tag_id},
                   !.dbg = @ \/ tag_id \notin s.entries[entry_id].tag_ids]

\* The loop at the end of delete_tag, for each tag it removed: no entry keeps
\* the tag.
UntagEntries(E, removed) ==
    [e \in DOMAIN E |-> [E[e] EXCEPT !.tag_ids = @ \ removed]]

\* Database::prune, run when every soft-deleted row is older than 30 days: the
\* three DELETEs, with their cascades where foreign keys are enforced.
prune(s) ==
    LET erows1 == [r \in {x \in DOMAIN s.erows : s.erows[x].deleted = "NULL"}
                     |-> s.erows[r]]
        fdel   == {r \in DOMAIN s.frows : s.frows[r].deleted # "NULL"}
        fgone  == IF s.fk THEN FolderCascade(s.frows, fdel) ELSE fdel
        frows1 == [r \in (DOMAIN s.frows) \ fgone |-> s.frows[r]]
        erows2 == [r \in {x \in DOMAIN erows1 :
                             s.fk => erows1[x].folder_id \notin fgone}
                     |-> erows1[r]]
        trows1 == IF s.fk THEN PruneTags(s.trows)
                  ELSE [r \in {x \in DOMAIN s.trows : s.trows[x].deleted = "NULL"}
                          |-> s.trows[r]]
    IN  [s EXCEPT !.erows = erows2, !.frows = frows1, !.trows = trows1,
                  !.etags = IF s.fk
                            THEN {p \in @ : p[1] \in DOMAIN erows2
                                            /\ p[2] \in DOMAIN trows1}
                            ELSE @]

\* Database::open, lines 109-138: the model starts from the root folder alone
\* and scan fills it from the base directory and the tables.
open(s, dirs, files) ==
    CHOOSE out \in
      {scan(s1, dirs, files)
       : s1 \in {[s EXCEPT
                    !.folders = (ROOT_FOLDER_ID :>
                        NewFolder(ROOT_FOLDER_ID, ROOT_FOLDER_ID, BaseName, <<>>)),
                    !.entries = EmptyMap]}} : TRUE

(***************************************************************************)
(* The handlers of the directory watcher (file_watcher.rs)                  *)
(***************************************************************************)
\* file_created
file_created(s, files, path) ==
    IF path \notin files THEN Failed(s)
    ELSE IF get_entry_id(s.folders, path) = NoId THEN add_entries(s, <<path>>)
    ELSE s

\* file_removed
file_removed(s, path) ==
    LET entry_id == get_entry_id(s.folders, path) IN
    IF entry_id = NoId THEN Failed(s) ELSE remove_entry(s, entry_id)

\* folder_removed
folder_removed(s, dirs, path) ==
    IF path \notin dirs THEN Failed(s)
    ELSE LET folder_id == get_folder_by_path(s.folders, path) IN
         IF folder_id = NoId THEN Failed(s) ELSE remove_folder(s, folder_id)

\* file_moved
file_moved(s, files, old_path, new_path) ==
    IF new_path \notin files THEN Failed(s)
    ELSE LET entry_id == get_entry_id(s.folders, old_path) IN
         IF entry_id # NoId THEN move_entry(s, entry_id, new_path)
         ELSE add_entries(s, <<new_path>>)

\* folder_moved
folder_moved(s, dirs, old_path, new_path) ==
    IF new_path \notin dirs THEN Failed(s)
    ELSE move_folder(s, old_path, new_path)

\* file_or_folder_updated
file_or_folder_updated(s, dirs, files, path) ==
    IF is_hidden_file(path) THEN s
    ELSE IF path \in dirs THEN add_folders(s, <<path>>)
    ELSE IF path \in files
         THEN IF ~is_audio_file(path) THEN s ELSE file_created(s, files, path)
    ELSE LET entry_id == get_entry_id(s.folders, path)
             folder_id == get_folder_by_path(s.folders, path)
         IN  IF entry_id # NoId THEN remove_entry(s, entry_id)
             ELSE IF folder_id # NoId THEN remove_folder(s, folder_id)
             ELSE s

\* handle_file_event.  The kinds: "CreateFolder", "CreateFile", "RemoveFolder",
\* "RemoveFile", "RenameBoth" (Modify(Name(Both))), "Modify" (any other
\* Modify) and "Other" (the kinds the match ignores).
handle_file_event(s, dirs, files, event) ==
    LET path == event.paths[1] IN
    CASE event.kind = "CreateFolder" -> scan_folders(s, dirs)
      [] event.kind = "CreateFile" ->
            IF is_hidden_file(path) \/ ~is_audio_file(path) THEN s
            ELSE file_created(s, files, path)
      [] event.kind = "RemoveFolder" ->
            IF is_hidden_file(path) THEN s ELSE folder_removed(s, dirs, path)
      [] event.kind = "RemoveFile" ->
            IF is_hidden_file(path) \/ ~is_audio_file(path) THEN s
            ELSE file_removed(s, path)
      [] event.kind = "RenameBoth" ->
            LET old_path == event.paths[1]
                new_path == event.paths[2]
                old_audio == ~is_hidden_file(old_path) /\ is_audio_file(old_path)
                new_audio == ~is_hidden_file(new_path) /\ is_audio_file(new_path)
            IN  IF new_path \in dirs THEN folder_moved(s, dirs, old_path, new_path)
                ELSE IF new_path \in files
                THEN IF old_audio /\ new_audio
                     THEN file_moved(s, files, old_path, new_path)
                     ELSE IF new_audio THEN file_created(s, files, new_path)
                     ELSE IF old_audio THEN file_removed(s, old_path)
                     ELSE s
                ELSE Panic(s)
      [] event.kind = "Modify" ->
            IF is_hidden_file(path) THEN s
            ELSE file_or_folder_updated(s, dirs, files, path)
      [] OTHER -> s

\* Whether the watcher loop calls on_files_updated after the event: the
\* handler returned Ok(true).  r is what handle_file_event left.
files_updated(r, dirs, files, event) ==
    LET path == event.paths[1] IN
    /\ r.res = "Ok"
    /\ CASE event.kind = "CreateFolder" -> TRUE
         [] event.kind \in {"CreateFile", "RemoveFile"} ->
               ~is_hidden_file(path) /\ is_audio_file(path)
         [] event.kind \in {"RemoveFolder", "Modify"} -> ~is_hidden_file(path)
         [] event.kind = "RenameBoth" ->
               \/ event.paths[2] \in dirs
               \/ /\ event.paths[2] \in files
                  /\ \E p \in {event.paths[1], event.paths[2]} :
                        ~is_hidden_file(p) /\ is_audio_file(p)
         [] OTHER -> FALSE

(***************************************************************************)
(* Initial states: Database::create                                        *)
(***************************************************************************)
NoEvent == [kind |-> "None", paths |-> <<>>]

\* Database::create, lines 203-232: the root rows and the root folder.
CreatedStore(fk) ==
    [folders |-> (ROOT_FOLDER_ID :>
                     NewFolder(ROOT_FOLDER_ID, ROOT_FOLDER_ID, BaseName, <<>>)),
     entries |-> EmptyMap,
     frows   |-> (ROOT_FOLDER_ID :> RootFolderRow),
     erows   |-> EmptyMap,
     fseq    |-> 0,
     eseq    |-> 0,
     trows   |-> (ROOT_TAG_ID :> RootTagRow),
     etags   |-> {},
     fk      |-> fk,
     res     |-> "Ok",
     dbg     |-> FALSE,
     tx_fails |-> FALSE]

InitTags ==
    /\ tags = (ROOT_TAG_ID :> RootTag)
    /\ tagRows = (ROOT_TAG_ID :> RootTagRow)
    /\ tagSeq = 0

\* The threads that call on_files_updated: the commands and the watcher.
Callers == {1, 2}

\* The threads that take the locks of the database: the watcher thread (1)
\* and two threads that run command handlers.
LockThreads == {1, 2, 3}

\* AppEmitter::new: the flags are clear and the thread is spawned.
\* WaveformGenerator::new: no source, reset clear, no worker.
\* Database::create: the watcher thread is in its loop and the stop channel
\* (bounded(1)) is empty.
\* open_database / create_database: the slot holds the database, whose
\* watcher was not told to stop, and Player::run has spawned a worker.
\* Database.data and Database.db are free.
InitThreads ==
    /\ emitter = [pc |-> "spawned", mutex |-> 0,
                  files_updated_immediate |-> FALSE,
                  files_updated_delayed |-> FALSE, stopped |-> FALSE,
                  caller |-> [c \in Callers |-> "idle"], unserved |-> FALSE]
    /\ waveform = [source_path |-> 0, reset |-> FALSE, sets |-> 0, workers |-> <<>>]
    /\ watcher = [pc |-> "loop", stop |-> 0, sending |-> 0, closes |-> 0]
    /\ app = [database |-> 1, told |-> {}, opened |-> 1,
              sink |-> 0, source |-> FALSE, queued |-> FALSE, ended |-> 0,
              workers |-> <<[pc |-> "spawned", had_source |-> FALSE]>>]
    /\ locks = [writer |-> 0, readers |-> {}, db |-> 0,
                plan |-> [t \in LockThreads |-> <<>>],
                held |-> [t \in LockThreads |-> 0]]

\* Database::create on a base directory that holds dirs and files: the root
\* rows, then scan.
InitOn(dirs, files) ==
    \E fk \in BOOLEAN : \E r \in {scan(CreatedStore(fk), dirs, files)} :
    /\ InitTags
    /\ InitThreads
    /\ foreign_keys = fk
    /\ entryTagRows = r.etags
    /\ removedEntries = EmptyMap
    /\ folders = r.folders
    /\ entries = r.entries
    /\ folderRows = r.frows
    /\ entryRows = r.erows
    /\ folderSeq = r.fseq
    /\ entrySeq = r.eseq
    /\ diskDirs = dirs
    /\ diskFiles = files
    /\ pending = NoEvent
    /\ changes = 0

\* Database::create on an empty base directory.
Init == InitOn({}, {})

(***************************************************************************)
(* Actions: the tag commands                                               *)
(***************************************************************************)
\* DatabaseData and the store before an operation.
Current ==
    [folders |-> folders, entries |-> entries, frows |-> folderRows,
     erows |-> entryRows, fseq |-> folderSeq, eseq |-> entrySeq,
     trows |-> tagRows, etags |-> entryTagRows, fk |-> foreign_keys,
     res |-> "Ok", dbg |-> FALSE, tx_fails |-> FALSE]

\* The state an operation leaves.  An Err leaves what was done before it.  A
\* panic happens under the write lock of Database.data and poisons it: every
\* later command and event panics on the lock, so the catalog has no next
\* state.  A failed debug_assert! is such a panic in a debug build only; the
\* steps here are those of a release build.
Outcome(r) ==
    /\ r.res # "Panic"
    /\ r.fseq <= MaxFolderId
    /\ r.eseq <= MaxEntryId
    /\ folders' = r.folders
    /\ entries' = r.entries
    /\ folderRows' = r.frows
    /\ entryRows' = r.erows
    /\ folderSeq' = r.fseq
    /\ entrySeq' = r.eseq
    /\ entryTagRows' = r.etags
    /\ removedEntries' =
          [e \in (DOMAIN removedEntries \cup DOMAIN entries) \ DOMAIN r.entries |->
              IF e \in DOMAIN entries
              THEN [path |-> entries[e].path, tag_ids |-> entries[e].tag_ids]
              ELSE removedEntries[e]]
    /\ UNCHANGED foreign_keys

\* A tag the caller may name: any tag of the catalog but the root sentinel.
UserTags == (DOMAIN tags) \ {ROOT_TAG_ID}

\* to_pos is -1 or an index inside the target's child range.
LegalPos(T, to_parent_id) ==
    {-1} \cup (0 .. (Cardinality(T[to_parent_id].children) - 1))

\* The target parent is outside the moved tag's own subtree.
LegalParents(T, tag_id) == (DOMAIN T) \ TagSubtree(T, tag_id)

NewTagWith(max, names) ==
    \E name \in names :
        LET r == NewTag(tags, tagRows, tagSeq, name) IN
        /\ tagSeq < max
        /\ tags' = r.tags
        /\ tagRows' = r.rows
        /\ tagSeq' = r.seq
        /\ UNCHANGED <<fsVars, threadVars>>

NewTagUpTo(max) == NewTagWith(max, TagNames)

NewTagCmd == NewTagUpTo(MaxTagId)

NewTreeTagCmd == NewTagUpTo(MaxTreeTagId)

RenameTagCmd ==
    \E id \in UserTags, name \in TagNames :
        LET r == RenameTag(tags, tagRows, id, name) IN
        /\ tags' = r.tags
        /\ tagRows' = r.rows
        /\ UNCHANGED <<tagSeq, fsVars, threadVars>>

SetTagColorCmd ==
    \E id \in UserTags, color \in Colors :
        LET r == SetTagColor(tags, tagRows, id, color) IN
        /\ tags' = r.tags
        /\ tagRows' = r.rows
        /\ UNCHANGED <<tagSeq, fsVars, threadVars>>

DeleteTagCmd ==
    \E id \in UserTags :
        LET r == DeleteTag(tags, tagRows, id) IN
        /\ tags' = r.tags
        /\ tagRows' = r.rows
        /\ entries' = UntagEntries(entries, (DOMAIN tags) \ DOMAIN r.tags)
        /\ removedEntries' = UntagEntries(removedEntries, (DOMAIN tags) \ DOMAIN r.tags)
        /\ UNCHANGED <<tagSeq, folders, folderRows, entryRows, folderSeq, entrySeq,
                       diskDirs, diskFiles, pending, changes, entryTagRows,
                       foreign_keys, threadVars>>

ReorderTagCmd ==
    \E id \in UserTags :
      \E p \in LegalParents(tags, id) :
        \E k \in LegalPos(tags, p) :
          LET r == ReorderTag(tags, tagRows, id, p, k) IN
          /\ tags' = r.tags
          /\ tagRows' = r.rows
          /\ UNCHANGED <<tagSeq, fsVars, threadVars>>

\* close, then Database::open less than 30 days after the last soft delete:
\* read_tags and scan; prune finds nothing old enough.  The new watcher has
\* no event of the old one.
Reopen ==
    /\ tags' = ReadTags(tagRows)
    /\ \E r \in {open(Current, diskDirs, diskFiles)} : r.res = "Ok" /\ Outcome(r)
    /\ pending' = NoEvent
    /\ UNCHANGED <<tagRows, tagSeq, diskDirs, diskFiles, changes, threadVars>>

\* close, then Database::open more than 30 days after the last soft delete:
\* read_tags and scan, then prune deletes every soft-deleted row.
ReopenLate ==
    /\ \/ \E i \in DOMAIN tagRows : tagRows[i].deleted # "NULL"
       \/ \E i \in DOMAIN entryRows : entryRows[i].deleted # "NULL"
       \/ \E i \in DOMAIN folderRows : folderRows[i].deleted # "NULL"
    /\ tags' = ReadTags(tagRows)
    /\ \E r \in {open(Current, diskDirs, diskFiles)} :
          /\ r.res = "Ok"
          /\ \E p \in {prune(r)} : Outcome(p) /\ tagRows' = p.trows
    /\ pending' = NoEvent
    /\ UNCHANGED <<tagSeq, diskDirs, diskFiles, changes, threadVars>>

\* The tag ids a command may name: those of the tags ever created, and 0,
\* which AUTOINCREMENT gives to no tag.
EntryTagIds == 0 .. MaxTagId

\* new_tag with one of two names.
NewEntryTagCmd == NewTagWith(MaxTagId, {"a", "b"})

\* The command add_tag_for_entry, with any tag id.
AddTagForEntryCmd ==
    \E entry_id \in DOMAIN entries, tag_id \in EntryTagIds :
        /\ \E r \in {add_tag_for_entry(Current, entry_id, tag_id)} : Outcome(r)
        /\ UNCHANGED <<tagVars, threadVars, diskDirs, diskFiles, pending, changes>>

\* The command remove_tag_for_entry, with any tag id.
RemoveTagForEntryCmd ==
    \E entry_id \in DOMAIN entries, tag_id \in EntryTagIds :
        /\ \E r \in {remove_tag_for_entry(Current, entry_id, tag_id)} : Outcome(r)
        /\ UNCHANGED <<tagVars, threadVars, diskDirs, diskFiles, pending, changes>>

Next ==
    \/ NewTagCmd
    \/ RenameTagCmd
    \/ SetTagColorCmd
    \/ DeleteTagCmd
    \/ ReorderTagCmd
    \/ Reopen
    \/ ReopenLate

Spec == Init /\ [][Next]_vars

\* Catalogs built by new_tag and reorder_tag alone.
NextTagReorder ==
    \/ NewTreeTagCmd
    \/ ReorderTagCmd

SpecTagReorder == Init /\ [][NextTagReorder]_vars

\* Catalogs built by new_tag and delete_tag alone, closed and opened again
\* at any time.
NextTagDelete ==
    \/ NewTreeTagCmd
    \/ DeleteTagCmd
    \/ Reopen
    \/ ReopenLate

SpecTagDelete == Init /\ [][NextTagDelete]_vars

(***************************************************************************)
(* Actions on the catalog of folders and entries                           *)
(***************************************************************************)
\* The watcher has handled every event, and the directory may change again.
Idle == pending = NoEvent /\ changes < MaxChanges

Exists(path) == path \in diskDirs \cup diskFiles

ParentExists(path) == Len(path) = 1 \/ Parent(path) \in diskDirs

\* A file appears under the base directory (created, or moved in).
ExtCreateFile ==
    \E path \in FilePaths, kind \in {"CreateFile", "Modify"} :
        /\ Idle
        /\ ~Exists(path) /\ ParentExists(path)
        /\ Cardinality(diskFiles) < MaxFiles
        /\ diskFiles' = diskFiles \cup {path}
        /\ changes' = changes + 1
        /\ pending' = [kind |-> kind, paths |-> <<path>>]
        /\ UNCHANGED <<tagVars, threadVars, folders, entries, folderRows, entryRows,
                       folderSeq, entrySeq, diskDirs,
                       entryTagRows, foreign_keys, removedEntries>>

\* A file disappears (removed, or moved out).
ExtRemoveFile ==
    \E path \in diskFiles, kind \in {"RemoveFile", "Modify"} :
        /\ Idle
        /\ diskFiles' = diskFiles \ {path}
        /\ changes' = changes + 1
        /\ pending' = [kind |-> kind, paths |-> <<path>>]
        /\ UNCHANGED <<tagVars, threadVars, folders, entries, folderRows, entryRows,
                       folderSeq, entrySeq, diskDirs,
                       entryTagRows, foreign_keys, removedEntries>>

\* fs::rename of a file by another program, onto a free name or onto a file.
ExtRenameFile ==
    \E old_path \in diskFiles, new_path \in FilePaths :
        /\ Idle
        /\ new_path # old_path
        /\ new_path \notin diskDirs /\ ParentExists(new_path)
        /\ diskFiles' = (diskFiles \ {old_path}) \cup {new_path}
        /\ changes' = changes + 1
        /\ pending' = [kind |-> "RenameBoth", paths |-> <<old_path, new_path>>]
        /\ UNCHANGED <<tagVars, threadVars, folders, entries, folderRows, entryRows,
                       folderSeq, entrySeq, diskDirs,
                       entryTagRows, foreign_keys, removedEntries>>

\* A directory appears (created, or moved in empty).
ExtMkdir ==
    \E path \in DirPaths, kind \in {"CreateFolder", "Modify", "Other"} :
        /\ Idle
        /\ ~Exists(path) /\ ParentExists(path)
        /\ diskDirs' = diskDirs \cup {path}
        /\ changes' = changes + 1
        /\ pending' = [kind |-> kind, paths |-> <<path>>]
        /\ UNCHANGED <<tagVars, threadVars, folders, entries, folderRows, entryRows,
                       folderSeq, entrySeq, diskFiles,
                       entryTagRows, foreign_keys, removedEntries>>

\* An empty directory disappears.
ExtRmdir ==
    \E path \in diskDirs, kind \in {"RemoveFolder", "Modify"} :
        /\ Idle
        /\ \A p \in diskDirs \cup diskFiles : p = path \/ ~StartsWith(p, path)
        /\ diskDirs' = diskDirs \ {path}
        /\ changes' = changes + 1
        /\ pending' = [kind |-> kind, paths |-> <<path>>]
        /\ UNCHANGED <<tagVars, threadVars, folders, entries, folderRows, entryRows,
                       folderSeq, entrySeq, diskFiles,
                       entryTagRows, foreign_keys, removedEntries>>

\* fs::rename of a directory by another program, onto a free name.
ExtRenameDir ==
    \E old_path \in diskDirs, new_path \in DirPaths :
        LET dirs1  == {IF StartsWith(p, old_path) THEN Rebase(p, old_path, new_path)
                       ELSE p : p \in diskDirs}
            files1 == {IF StartsWith(p, old_path) THEN Rebase(p, old_path, new_path)
                       ELSE p : p \in diskFiles}
        IN
        /\ Idle
        /\ ~Exists(new_path) /\ ParentExists(new_path)
        /\ ~StartsWith(new_path, old_path)
        /\ dirs1 \subseteq DirPaths /\ files1 \subseteq FilePaths
        /\ diskDirs' = dirs1
        /\ diskFiles' = files1
        /\ changes' = changes + 1
        /\ pending' = [kind |-> "RenameBoth", paths |-> <<old_path, new_path>>]
        /\ UNCHANGED <<tagVars, threadVars, folders, entries, folderRows, entryRows,
                       folderSeq, entrySeq, entryTagRows, foreign_keys, removedEntries>>

\* The watcher thread goes on after it has taken the stop message.
WatcherRunsOn == TRUE

\* The watcher thread is in its loop: it has not taken the stop message.
WatcherRuns == watcher.pc = "loop"

\* The watcher thread, lines 56-99: one debounced event, handle_file_event;
\* an Err is logged.
WatcherEvent ==
    /\ WatcherRuns
    /\ pending # NoEvent
    /\ pending' = NoEvent
    /\ UNCHANGED <<tagVars, threadVars, diskDirs, diskFiles, changes>>
    /\ \E r \in {handle_file_event(s, dirs, files, event)
                 : s \in {Current}, dirs \in {diskDirs}, files \in {diskFiles},
                   event \in {pending}} : Outcome(r)

\* Database::refresh
Refresh ==
    /\ \E r \in {scan(Current, diskDirs, diskFiles)} : Outcome(r)
    /\ UNCHANGED <<tagVars, threadVars, diskDirs, diskFiles, pending, changes>>

\* The destination check of import_file and move_file: without force, a
\* file or directory at the destination refuses the call.
NeverRefused(force, dirs, files, path) == FALSE

AlreadyExists(force, dirs, files, path) == ~force /\ path \in dirs \cup files

\* What a file command leaves: the catalog st, the files on disk, the value
\* it returns, and whether it called on_files_updated.
Refused(s, files, ret) == [st |-> s, files |-> files, ret |-> ret, emitted |-> FALSE]

Done(r, files) == [st |-> r, files |-> files, ret |-> r.res, emitted |-> r.res = "Ok"]

\* Database::import_file of the file name of a source outside the base
\* directory; os_ok tells whether the copy can succeed (the source is a
\* readable file).
import_file(s, dirs, files, name, force, os_ok) ==
    IF AlreadyExists(force, dirs, files, <<name>>)
    THEN Refused(s, files, "FileAlreadyExists")
    ELSE IF ~os_ok \/ <<name>> \in dirs THEN Refused(s, files, "Io")
    ELSE Done(add_entries(s, <<<<name>>>>), files \cup {<<name>>})

\* Database::delete_file; os_ok tells whether the trash takes the file.
delete_file(s, files, entry_id, os_ok) ==
    IF entry_id \notin DOMAIN s.entries THEN Done(Panic(s), files)
    ELSE IF ~os_ok \/ s.entries[entry_id].path \notin files THEN Refused(s, files, "Io")
    ELSE Done(remove_entry(s, entry_id), files \ {s.entries[entry_id].path})

\* Database::move_file; os_ok tells whether the rename can succeed beyond
\* what the paths tell.
move_file(s, dirs, files, entry_id, folder_id, force, os_ok) ==
    IF entry_id \notin DOMAIN s.entries THEN Done(Panic(s), files)
    ELSE IF s.entries[entry_id].folder_id = folder_id
    THEN [st |-> s, files |-> files, ret |-> "Ok", emitted |-> FALSE]
    ELSE IF folder_id \notin DOMAIN s.folders THEN Done(Panic(s), files)
    ELSE CHOOSE out \in
      {IF AlreadyExists(force, dirs, files, new_path)
       THEN Refused(s, files, "FileAlreadyExists")
       ELSE IF \/ ~os_ok
               \/ old_path \notin files
               \/ new_path \in dirs
               \/ ~(Len(new_path) = 1 \/ Parent(new_path) \in dirs)
       THEN Refused(s, files, "Io")
       ELSE Done(move_entry_to_folder(s, entry_id, folder_id),
                 (files \ {old_path}) \cup {new_path})
       : old_path \in {s.entries[entry_id].path},
         new_path \in {Join(s.folders[folder_id].path,
                            s.entries[entry_id].file_name)}} : TRUE

\* The values a file command returns when its destination check or its OS
\* step fails.
FailedEarly == {"FileAlreadyExists", "Io"}

\* The command import_file of a file from outside the base directory; the
\* copy shows up as an event.
ImportFile ==
    \E name \in {FileName(p) : p \in FilePaths}, force \in BOOLEAN, os_ok \in BOOLEAN :
        \E r \in {import_file(Current, diskDirs, diskFiles, name, force, os_ok)} :
        /\ Idle
        /\ <<name>> \in FilePaths
        /\ IF r.ret \in FailedEarly
           THEN UNCHANGED fsVars
           ELSE /\ Cardinality(r.files) <= MaxFiles
                /\ diskFiles' = r.files
                /\ Outcome(r.st)
                /\ changes' = changes + 1
                /\ pending' = [kind |-> (IF <<name>> \in diskFiles THEN "Modify"
                                         ELSE "CreateFile"),
                               paths |-> <<<<name>>>>]
                /\ UNCHANGED diskDirs
        /\ UNCHANGED <<tagVars, threadVars>>

\* The command delete_file; the move to the trash shows up as an event.
DeleteFile ==
    \E entry_id \in DOMAIN entries, kind \in {"RemoveFile", "Modify"}, os_ok \in BOOLEAN :
        \E r \in {delete_file(Current, diskFiles, entry_id, os_ok)} :
        /\ Idle
        /\ IF r.ret \in FailedEarly
           THEN UNCHANGED fsVars
           ELSE /\ diskFiles' = r.files
                /\ Outcome(r.st)
                /\ changes' = changes + 1
                /\ pending' = [kind |-> kind, paths |-> <<entries[entry_id].path>>]
                /\ UNCHANGED diskDirs
        /\ UNCHANGED <<tagVars, threadVars>>

\* The command move_file; the rename shows up as an event.
MoveFile ==
    \E entry_id \in DOMAIN entries, folder_id \in DOMAIN folders,
       force \in BOOLEAN, os_ok \in BOOLEAN :
        \E r \in {move_file(Current, diskDirs, diskFiles, entry_id, folder_id,
                            force, os_ok)} :
        /\ Idle
        /\ Join(folders[folder_id].path, entries[entry_id].file_name) \in FilePaths
        /\ IF r.ret \in FailedEarly \/ entries[entry_id].folder_id = folder_id
           THEN UNCHANGED fsVars
           ELSE /\ diskFiles' = r.files
                /\ Outcome(r.st)
                /\ changes' = changes + 1
                /\ pending' = [kind |-> "RenameBoth",
                               paths |-> <<entries[entry_id].path,
                                           Join(folders[folder_id].path,
                                                entries[entry_id].file_name)>>]
                /\ UNCHANGED diskDirs
        /\ UNCHANGED <<tagVars, threadVars>>

NextFs ==
    \/ ExtCreateFile
    \/ ExtRemoveFile
    \/ ExtRenameFile
    \/ ExtMkdir
    \/ ExtRmdir
    \/ ExtRenameDir
    \/ WatcherEvent
    \/ Refresh
    \/ ImportFile
    \/ DeleteFile
    \/ MoveFile

SpecFs == Init /\ [][NextFs]_vars

\* Other programs change the base directory and the watcher thread handles
\* each event it receives: its loop blocks on the channel and runs the handler
\* of whatever arrives, so an event that can be handled is handled.
NextWatch ==
    \/ ExtCreateFile
    \/ ExtRemoveFile
    \/ ExtRenameFile
    \/ ExtMkdir
    \/ ExtRmdir
    \/ ExtRenameDir
    \/ WatcherEvent
    \/ Refresh

SpecWatch == Init /\ [][NextWatch]_vars /\ WF_vars(WatcherEvent)

\* A database created on a base directory that holds one audio file.
InitEntryTag == InitOn({}, {<<FileAWav>>})

\* Tags are created, nested, deleted, and put on and taken off the entry, and
\* the database is closed and opened again at any time.
NextEntryTag ==
    \/ NewEntryTagCmd
    \/ ReorderTagCmd
    \/ DeleteTagCmd
    \/ AddTagForEntryCmd
    \/ RemoveTagForEntryCmd
    \/ Reopen
    \/ ReopenLate

SpecEntryTag == InitEntryTag /\ [][NextEntryTag]_vars

\* Files come and go in the base directory while tags are created, deleted,
\* and put on and taken off the entries, and the database is closed and opened
\* again, all within the 30 days in which prune keeps the soft-deleted rows.
NextRetag ==
    \/ ExtCreateFile
    \/ ExtRemoveFile
    \/ WatcherEvent
    \/ Refresh
    \/ NewEntryTagCmd
    \/ DeleteTagCmd
    \/ AddTagForEntryCmd
    \/ RemoveTagForEntryCmd
    \/ Reopen

SpecRetag == InitEntryTag /\ [][NextRetag]_vars

(***************************************************************************)
(* Properties of the catalog of folders and entries                        *)
(***************************************************************************)
\* The files the catalog is to hold: audio files, no name on the way from the
\* base directory starting with '.'.
CatalogFiles(files) ==
    {p \in files : is_audio_file(p) /\ \A i \in 1..Len(p) : Head(p[i]) # "."}

\* C1: after a scan that completes, from any reachable state, the entries are
\* exactly the non-hidden audio files on disk, one entry per file, each filed
\* under the folder of its parent directory.
C1_ScanMirrorsDisk ==
    \A r \in {scan(Current, diskDirs, diskFiles)} :
        r.res = "Ok" =>
            /\ {r.entries[e].path : e \in DOMAIN r.entries} = CatalogFiles(diskFiles)
            /\ \A e1, e2 \in DOMAIN r.entries :
                   r.entries[e1].path = r.entries[e2].path => e1 = e2
            /\ \A e \in DOMAIN r.entries :
                   /\ r.entries[e].folder_id # NoId
                   /\ r.entries[e].folder_id =
                          get_folder_by_path(r.folders, Parent(r.entries[e].path))

\* C2: after any mutation of the catalog every entry is the entry in the slot
\* of its file name in its folder.
C2_EntrySlotsConsistent ==
    \A e \in DOMAIN entries :
        /\ entries[e].id = e
        /\ entries[e].folder_id \in DOMAIN folders
        /\ entries[e].file_name \in DOMAIN folders[entries[e].folder_id].entries
        /\ folders[entries[e].folder_id].entries[entries[e].file_name] = e

\* C3: after any mutation of the catalog every folder but the root is the
\* sub-folder of its name in its parent, its path is its parent's path joined
\* with its name, and every sub-folder id is a folder.
C3_FolderTreeConsistent ==
    /\ \A f \in (DOMAIN folders) \ {ROOT_FOLDER_ID} :
           /\ folders[f].parent_id \in DOMAIN folders
           /\ folders[f].name \in DOMAIN folders[folders[f].parent_id].sub_folders
           /\ folders[folders[f].parent_id].sub_folders[folders[f].name] = f
           /\ folders[f].path = Join(folders[folders[f].parent_id].path, folders[f].name)
    /\ \A f \in DOMAIN folders :
           \A n \in DOMAIN folders[f].sub_folders :
               folders[f].sub_folders[n] \in DOMAIN folders

(***************************************************************************)
(* Properties of the tag tree                                              *)
(***************************************************************************)
\* The position values of the children of tag t are exactly 0 .. n-1.
ChildPositions(T, t) == {T[c].position : c \in T[t].children}

Contiguous(T) ==
    \A t \in DOMAIN T :
        /\ ChildPositions(T, t) = 0 .. (Cardinality(T[t].children) - 1)
        /\ \A c1, c2 \in T[t].children : T[c1].position = T[c2].position => c1 = c2

\* The children of p read in position order (ties by id).
RECURSIVE SortByPosition(_, _)
SortByPosition(T, S) ==
    IF S = {} THEN <<>>
    ELSE LET m == CHOOSE x \in S : \A y \in S :
                    \/ T[x].position < T[y].position
                    \/ (T[x].position = T[y].position /\ x <= y)
         IN  <<m>> \o SortByPosition(T, S \ {m})

ChildSeq(T, p) == SortByPosition(T, T[p].children)

\* List l without x, and list l with x put at index k (counted from 0).
SeqWithout(l, x) == SelectSeq(l, LAMBDA y : y # x)

SeqInsertAt(l, k, x) == SubSeq(l, 1, k) \o <<x>> \o SubSeq(l, k + 1, Len(l))

\* C4: after any sequence of new_tag and legal reorder_tag calls (to_pos -1
\* included, also on a tag already under the target), the children of every
\* tag have the positions 0 .. n-1.
C4_ReorderKeepsPositionsContiguous == Contiguous(tags)

\* C5: after any sequence of new_tag and delete_tag calls the remaining
\* children of every parent have the positions 0 .. n-1, and no two children
\* of the root tag share a position.
C5_DeleteKeepsPositionsContiguous ==
    /\ ChildPositions(tags, ROOT_TAG_ID)
          = 0 .. (Cardinality(tags[ROOT_TAG_ID].children) - 1)
    /\ \A c1, c2 \in tags[ROOT_TAG_ID].children :
          c1 # c2 => tags[c1].position # tags[c2].position

\* An explicit index inside the child range of the target.
ExplicitPos(T, to_parent_id) == LegalPos(T, to_parent_id) \ {-1}

\* C6: reorder_tag(id, P2, k) with an explicit in-range k is remove-then-insert
\* on the lists of children read in position order: the source list loses id,
\* the target list (without id) gets id at index k, and no other tag changes
\* parent or relative order.
C6_ReorderIsRemoveThenInsert ==
    \A id \in UserTags :
      \A p \in LegalParents(tags, id) :
        \A k \in ExplicitPos(tags, p) :
          LET T2 == ReorderTag(tags, tagRows, id, p, k).tags
              p1 == tags[id].parent_id
          IN  /\ DOMAIN T2 = DOMAIN tags
              /\ T2[id].parent_id = p
              /\ ChildSeq(T2, p) = SeqInsertAt(SeqWithout(ChildSeq(tags, p), id), k, id)
              /\ p1 # p => ChildSeq(T2, p1) = SeqWithout(ChildSeq(tags, p1), id)
              /\ \A q \in (DOMAIN tags) \ {p, p1} : ChildSeq(T2, q) = ChildSeq(tags, q)
              /\ \A t \in (DOMAIN tags) \ {id} : T2[t].parent_id = tags[t].parent_id

\* C7: reorder_tag(id, p, k) followed by reorder_tag(id, p0, k0), with (p0, k0)
\* the parent and position of id before the first call, leaves every tag and
\* every row of the store as before the first call.
C7_ReorderRoundTrip ==
    \A id \in UserTags :
      \A p \in LegalParents(tags, id) :
        \A k \in LegalPos(tags, p) :
          LET r1 == ReorderTag(tags, tagRows, id, p, k)
              r2 == ReorderTag(r1.tags, r1.rows, id,
                               tags[id].parent_id, tags[id].position)
          IN  /\ r2.tags = tags
              /\ r2.rows = tagRows

C9_NewTagContract ==
    \A name \in TagNames :
        LET r == NewTag(tags, tagRows, tagSeq, name) IN
        IF \E t \in DOMAIN tags : tags[t].name = name
        THEN /\ r.res = "TagAlreadyExists"
             /\ r.tags = tags
             /\ r.rows = tagRows
        ELSE /\ r.res = "Ok"
             /\ r.id \notin DOMAIN tags
             /\ DOMAIN r.tags = (DOMAIN tags) \cup {r.id}
             /\ r.tags[r.id] =
                    [name |-> name, parent_id |-> ROOT_TAG_ID,
                     position |-> Cardinality(tags[ROOT_TAG_ID].children),
                     color |-> 0, children |-> {}]
             /\ r.tags[ROOT_TAG_ID].children = tags[ROOT_TAG_ID].children \cup {r.id}

\* C10: new_tag(name) and rename_tag(id, name) succeed whenever no tag of the
\* catalog has the name, also when a tag deleted earlier had it.
C10_NameFreeAfterDelete ==
    \A name \in TagNames :
        (\A t \in DOMAIN tags : tags[t].name # name) =>
            /\ NewTag(tags, tagRows, tagSeq, name).res = "Ok"
            /\ \A id \in UserTags : RenameTag(tags, tagRows, id, name).res = "Ok"

\* C11: rename_tag(id, name) returns TagAlreadyExists and changes nothing when
\* some tag has the name; otherwise it changes the name of tag id and nothing
\* else, and a reopen reads the new name back.
C11_RenameTagContract ==
    \A id \in UserTags, name \in TagNames :
        \A r \in {RenameTag(tags, tagRows, id, name)} :
            IF \E i \in DOMAIN tags : tags[i].name = name
            THEN r.res = "TagAlreadyExists" /\ r.tags = tags /\ r.rows = tagRows
            ELSE /\ r.res = "Ok"
                 /\ r.tags = [tags EXCEPT ![id].name = name]
                 /\ id \in DOMAIN ReadTags(r.rows)
                 /\ ReadTags(r.rows)[id].name = name

C13_EntryTagsAreTags ==
    \A e \in DOMAIN entries : entries[e].tag_ids \subseteq DOMAIN tags

\* C15: an entry that left the catalog because its file disappeared, and whose
\* file is there again and is added again, through the serial or the batched
\* path, gets the id it had and exactly the tag_ids it had when it was removed,
\* minus the tags deleted in between.
C15_ReaddRestoresIdAndTags ==
    \A e \in DOMAIN removedEntries :
      \A path \in {removedEntries[e].path} :
        \A r \in {add_entries_serial(Current, <<path>>),
                  add_entries_batch(Current, <<path>>)} :
            /\ r.res = "Ok"
            /\ get_entry_id(r.folders, path) = e
            /\ e \in DOMAIN r.entries
            /\ r.entries[e].tag_ids = removedEntries[e].tag_ids

\* C14: add_tag_for_entry(e, t) on an entry that has t returns
\* TagAlreadyExistsForEntry and leaves tag_ids and table entry_tag as they
\* were; on an entry without t it adds t to both; and remove_tag_for_entry(e, t)
\* after it leaves tag_ids and entry_tag as they were before the add.
C14_AddTagForEntryContract ==
    \A e \in DOMAIN entries, t \in EntryTagIds :
      \A r \in {add_tag_for_entry(Current, e, t)} :
        IF t \in entries[e].tag_ids
        THEN /\ r.res = "TagAlreadyExistsForEntry"
             /\ r.entries = entries
             /\ r.etags = entryTagRows
        ELSE /\ r.res = "Ok"
             /\ r.entries = [entries EXCEPT ![e].tag_ids = @ \cup {t}]
             /\ r.etags = entryTagRows \cup {<<e, t>>}
             /\ \A q \in {remove_tag_for_entry(r, e, t)} :
                  /\ q.res = "Ok"
                  /\ q.entries = entries
                  /\ q.etags = entryTagRows

\* The watcher has not yet handled the event of path, which tells of a file
\* that is now on disk.
FileEventPending(path) ==
    /\ pending.kind \in {"CreateFile", "Modify"}
    /\ pending.paths = <<path>>
    /\ path \in diskFiles

\* The watcher has not yet handled the event of path, which tells of something
\* that is no longer on disk.
GoneEventPending(path, kinds) ==
    /\ pending.kind \in kinds
    /\ pending.paths = <<path>>
    /\ path \notin diskFiles \cup diskDirs

\* The files the handlers take for audio files that are not hidden.
AudioPaths == {p \in FilePaths : ~is_hidden_file(p) /\ is_audio_file(p)}

\* The entries whose path is path.
EntriesAt(E, path) == {e \in DOMAIN E : E[e].path = path}

\* The watcher loop calls on_files_updated after the event it handles now.
EmitsFilesUpdated ==
    \A r \in {handle_file_event(Current, diskDirs, diskFiles, pending)} :
        files_updated(r, diskDirs, diskFiles, pending)

\* C16: when a non-hidden audio file is created in, or moved into, a directory
\* that is a folder of the model, the watcher eventually adds exactly one entry
\* for it, with that relative path and the folder_id of its parent directory,
\* leaves all other entries unchanged, and then calls on_files_updated.
C16_CreatedFileIsAdded ==
    /\ \A path \in AudioPaths :
         (/\ FileEventPending(path)
          /\ get_folder_by_path(folders, Parent(path)) # NoId
          /\ entrySeq < MaxEntryId)
         ~> (/\ pending = NoEvent
             /\ \E e \in DOMAIN entries :
                  /\ EntriesAt(entries, path) = {e}
                  /\ get_entry_id(folders, path) = e
                  /\ entries[e].folder_id = get_folder_by_path(folders, Parent(path)))
    /\ [][\A path \in AudioPaths :
            (/\ FileEventPending(path)
             /\ get_folder_by_path(folders, Parent(path)) # NoId
             /\ pending' = NoEvent)
            => /\ \A e \in DOMAIN entries :
                    entries[e].path # path
                        => e \in DOMAIN entries' /\ entries'[e] = entries[e]
               /\ \A e \in (DOMAIN entries') \ DOMAIN entries : entries'[e].path = path
               /\ EmitsFilesUpdated]_vars

RECURSIVE FolderSubtree(_, _)
FolderSubtree(F, id) ==
    {id} \cup UNION {FolderSubtree(F, F[id].sub_folders[n])
                     : n \in DOMAIN F[id].sub_folders}

\* C18: when the watcher handles a folder-remove event for a directory that is
\* gone from disk and is a folder of the model, that folder, every folder
\* below it and all their entries leave the model, and their rows are marked
\* deleted.
C18_RemovedFolderIsRemoved ==
    [][\A path \in DirPaths :
         (/\ GoneEventPending(path, {"RemoveFolder"})
          /\ ~is_hidden_file(path)
          /\ get_folder_by_path(folders, path) # NoId
          /\ pending' = NoEvent)
         => \A gone \in {FolderSubtree(folders, get_folder_by_path(folders, path))} :
              /\ gone \cap DOMAIN folders' = {}
              /\ \A e \in DOMAIN entries : entries[e].folder_id \in gone
                    => /\ e \notin DOMAIN entries'
                       /\ e \in DOMAIN entryRows' => entryRows'[e].deleted # "NULL"
              /\ \A f \in gone :
                    f \in DOMAIN folderRows' => folderRows'[f].deleted # "NULL"]_vars

\* C19: when a folder-create event is handled, the folders-only scan returns
\* Ok, adds a folder for every non-hidden directory on disk that the model
\* lacks, removes only folders whose directory is gone, and keeps the root
\* folder, every folder whose directory is still on disk and all entries of
\* those folders, with the ids they had.
C19_FolderCreateScan ==
    pending.kind = "CreateFolder" =>
        \A r \in {handle_file_event(Current, diskDirs, diskFiles, pending)} :
            /\ r.res = "Ok"
            /\ \A d \in diskDirs :
                  (\A i \in DOMAIN d : ~is_hidden_file(<<d[i]>>))
                      => get_folder_by_path(r.folders, d) # NoId
            /\ \A f \in (DOMAIN folders) \ DOMAIN r.folders :
                  f # ROOT_FOLDER_ID /\ folders[f].path \notin diskDirs
            /\ \A f \in DOMAIN folders :
                  (f = ROOT_FOLDER_ID \/ folders[f].path \in diskDirs)
                      => /\ f \in DOMAIN r.folders
                         /\ r.folders[f].id = f
                         /\ r.folders[f].path = folders[f].path
                         /\ \A e \in DOMAIN entries :
                               entries[e].folder_id = f
                                   => e \in DOMAIN r.entries
                                      /\ r.entries[e] = entries[e]

\* C20: on a rename event with both paths in the tree whose target is a
\* regular file, the handler ends without a panic and: audio to audio, the
\* entry of the source keeps its id and tag_ids and takes the folder_id, path
\* and file_name of the target; non-audio to audio, the target has an entry;
\* audio to non-audio, the entry of the source is removed; non-audio to
\* non-audio, nothing changes.  Audio is what the handler takes for audio: an
\* audio extension on a name that is not hidden.
C20_RenameFileContract ==
    (pending.kind = "RenameBoth" /\ pending.paths[2] \in diskFiles) =>
        \A old_path \in {pending.paths[1]}, new_path \in {pending.paths[2]} :
        \A r \in {handle_file_event(Current, diskDirs, diskFiles, pending)} :
        \A e \in {get_entry_id(folders, old_path)} :
        \A target \in {get_folder_by_path(folders, Parent(new_path))} :
            /\ r.res # "Panic"
            /\ (old_path \in AudioPaths /\ new_path \in AudioPaths /\ e # NoId)
                  => /\ r.res = "Ok"
                     /\ e \in DOMAIN r.entries
                     /\ r.entries[e] = [entries[e] EXCEPT !.folder_id = target,
                                                           !.path = new_path,
                                                           !.file_name = FileName(new_path)]
                     /\ get_entry_id(r.folders, new_path) = e
                     /\ old_path # new_path => get_entry_id(r.folders, old_path) = NoId
            /\ (old_path \notin AudioPaths /\ new_path \in AudioPaths /\ target # NoId)
                  => /\ r.res = "Ok"
                     /\ \E x \in DOMAIN r.entries :
                           /\ get_entry_id(r.folders, new_path) = x
                           /\ r.entries[x].path = new_path
                           /\ r.entries[x].folder_id = target
            /\ (old_path \in AudioPaths /\ new_path \notin AudioPaths /\ e # NoId)
                  => /\ r.res = "Ok"
                     /\ e \notin DOMAIN r.entries
                     /\ get_entry_id(r.folders, old_path) = NoId
            /\ (old_path \notin AudioPaths /\ new_path \notin AudioPaths)
                  => r = Current

\* C21: the watcher thread never panics: whatever event is pending, in every
\* state of the model and of the directory, handle_file_event ends with Ok or
\* with an Err that the loop logs.
C21_WatcherNeverPanics ==
    pending # NoEvent =>
        \A r \in {handle_file_event(Current, diskDirs, diskFiles, pending)} :
            r.res \in {"Ok", "Err"}

(***************************************************************************)
(* The filter (database/filter.rs)                                         *)
(***************************************************************************)
\* Option::None of a String of the metadata, and of the metadata.
NoText == <<"None">>

NoMetadata == [title |-> NoText, artist |-> NoText, album |-> NoText, none |-> TRUE]

\* str::contains
Contains(str, pat) ==
    \E i \in 0 .. (Len(str) - Len(pat)) : SubSeq(str, i + 1, i + Len(pat)) = pat

\* The recursion of get_folder_descendants and get_tag_descendants over the
\* children kids[id] of a node: the node and everything below it.  It unwraps
\* the lookup of every node it visits, and it does not return when the
\* children lead back to a node (fuel counts the nodes a path may hold).
RECURSIVE DescendantsOf(_, _, _)
DescendantsOf(kids, id, fuel) ==
    IF id \notin DOMAIN kids \/ fuel = 0 THEN [panic |-> TRUE, ids |-> {}]
    ELSE CHOOSE out \in
           {[panic |-> \E d \in subs : d.panic,
             ids   |-> {id} \cup UNION {d.ids : d \in subs}]
            : subs \in {{DescendantsOf(kids, c, fuel - 1) : c \in kids[id]}}} : TRUE

\* DatabaseData::get_folder_descendants
get_folder_descendants(F, folder_id) ==
    DescendantsOf([f \in DOMAIN F |->
                      {F[f].sub_folders[n] : n \in DOMAIN F[f].sub_folders}],
                  folder_id, Cardinality(DOMAIN F))

\* The tag alone, without its descendants.
OnlyTheTag(T, tag_id) == [panic |-> tag_id \notin DOMAIN T, ids |-> {tag_id}]

\* DatabaseData::get_tag_descendants
get_tag_descendants(T, tag_id) ==
    DescendantsOf([t \in DOMAIN T |-> T[t].children], tag_id, Cardinality(DOMAIN T))

\* The search of filter on one entry: the lowercased search text is part of
\* the lowercased file name, title, artist or album.
MatchSearch(entry, metadata, search) ==
    \E lower \in {ToAsciiLowercase(search)} :
        \/ Contains(ToAsciiLowercase(entry.file_name), lower)
        \/ /\ ~metadata.none
           /\ \E text \in {metadata.title, metadata.artist, metadata.album} :
                 text # NoText /\ Contains(ToAsciiLowercase(text), lower)

\* DatabaseData::filter on tags T, folders F and entries E, where metadata[e]
\* is what read_file left in the metadata of entry e.  The result is None,
\* Some list of entry ids (ids holds its elements), or a panic.
filter(T, F, E, metadata, f) ==
    CHOOSE out \in
      {IF tag_ids.panic \/ folder_ids.panic THEN [kind |-> "Panic", ids |-> {}]
       ELSE IF f.search = <<>> /\ tag_ids.ids = {} /\ folder_ids.none
       THEN [kind |-> "None", ids |-> {}]
       ELSE [kind |-> "Some",
             ids  |-> {E[e].id : e \in
                        {x \in DOMAIN E :
                            /\ ~folder_ids.none => E[x].folder_id \in folder_ids.ids
                            /\ f.tag_ids # {} => E[x].tag_ids \cap tag_ids.ids # {}
                            /\ f.search # <<>> =>
                                  MatchSearch(E[x], metadata[x], f.search)}}]
       : tag_ids \in
           {IF f.include_child_tags
            THEN CHOOSE acc \in
                   {[panic |-> \E d \in ds : d.panic, ids |-> UNION {d.ids : d \in ds}]
                    : ds \in {{get_tag_descendants(T, t) : t \in f.tag_ids}}} : TRUE
            ELSE [panic |-> FALSE, ids |-> f.tag_ids]},
         folder_ids \in
           {IF f.folder_id = NoId
               \/ (f.folder_id = ROOT_FOLDER_ID /\ f.include_subfolders)
            THEN [panic |-> FALSE, none |-> TRUE, ids |-> {}]
            ELSE IF f.include_subfolders
            THEN CHOOSE acc \in
                   {[panic |-> d.panic, none |-> FALSE, ids |-> d.ids]
                    : d \in {get_folder_descendants(F, f.folder_id)}} : TRUE
            ELSE [panic |-> FALSE, none |-> FALSE, ids |-> {f.folder_id}]}} : TRUE

\* A database created on a base directory with nested directories and an
\* audio file in the first of them.
InitFilter == InitOn({<<DirD>>, <<DirD, DirE>>}, {<<DirD, FileAWav>>})

\* Tags are created, nested, and put on and taken off the entries.
NextFilter ==
    \/ NewEntryTagCmd
    \/ ReorderTagCmd
    \/ AddTagForEntryCmd
    \/ RemoveTagForEntryCmd

SpecFilter == InitFilter /\ [][NextFilter]_vars

\* The search texts, and the metadata read_file found in the files of the
\* entries: none at all, or a title, an artist and an album.
SearchTexts == {<<>>, <<"W">>, <<"Y">>, <<"Q">>}

Metadatas(E) ==
    {[e \in DOMAIN E |-> NoMetadata],
     [e \in DOMAIN E |->
         [title |-> <<"X", "y">>, artist |-> NoText, album |-> <<"a", "y">>,
          none |-> FALSE]]}

\* The filters a caller builds from the tags and the folders of the catalog.
Filters ==
    [search : SearchTexts, tag_ids : SUBSET UserTags, include_child_tags : BOOLEAN,
     folder_id : {NoId} \cup DOMAIN folders, include_subfolders : BOOLEAN]

\* C22: for every filter that names tags and a folder of the catalog, filter
\* returns None exactly when search is empty, tag_ids is empty, and folder_id
\* is absent or is the root folder with include_subfolders; in every other
\* case it returns a list.
C22_NoFilterExactly ==
    \A f \in Filters : \A m \in Metadatas(entries) :
        \A r \in {filter(tags, folders, entries, m, f)} :
            /\ r.kind \in {"None", "Some"}
            /\ r.kind = "None" <=>
                  /\ f.search = <<>>
                  /\ f.tag_ids = {}
                  /\ \/ f.folder_id = NoId
                     \/ f.folder_id = ROOT_FOLDER_ID /\ f.include_subfolders

\* The search text is part of the text, letter case set aside.
MatchesText(text, search) ==
    \E i \in 0 .. (Len(text) - Len(search)) :
        \A k \in 1 .. Len(search) :
            ToAsciiLowercase(<<text[i + k]>>) = ToAsciiLowercase(<<search[k]>>)

\* C23: when filter returns a list, an entry id is in it exactly when every
\* given criterion holds: its folder_id is folder_id or, with
\* include_subfolders, folder_id or a descendant of it; its tag_ids shares a
\* tag with the listed tags, each with its descendants when include_child_tags
\* is set; the search text matches its file name, title, artist or album.
C23_FilterIsConjunction ==
    \A f \in Filters : \A m \in Metadatas(entries) :
        \A r \in {filter(tags, folders, entries, m, f)} :
            r.kind = "Some" =>
                r.ids =
                  {e \in DOMAIN entries :
                     /\ f.folder_id # NoId =>
                           entries[e].folder_id \in
                               (IF f.include_subfolders
                                THEN FolderSubtree(folders, f.folder_id)
                                ELSE {f.folder_id})
                     /\ f.tag_ids # {} =>
                           \E t \in f.tag_ids :
                              entries[e].tag_ids \cap
                                  (IF f.include_child_tags THEN TagSubtree(tags, t)
                                   ELSE {t}) # {}
                     /\ f.search # <<>> =>
                           \/ MatchesText(entries[e].file_name, f.search)
                           \/ /\ ~m[e].none
                              /\ \E text \in {m[e].title, m[e].artist, m[e].album} :
                                    text # NoText /\ MatchesText(text, f.search)}

C23_Witness ==
    \E t \in UserTags : \E e \in DOMAIN entries : \E m \in Metadatas(entries) :
        /\ t \notin entries[e].tag_ids
        /\ entries[e].tag_ids \cap tags[t].children # {}
        /\ ~m[e].none
        /\ filter(tags, folders, entries, m,
                  [search |-> <<"Y">>, tag_ids |-> {t}, include_child_tags |-> TRUE,
                   folder_id |-> ROOT_FOLDER_ID, include_subfolders |-> TRUE])
              = [kind |-> "Some", ids |-> {e}]
        /\ filter(tags, folders, entries, m,
                  [search |-> <<"Y">>, tag_ids |-> {t}, include_child_tags |-> TRUE,
                   folder_id |-> ROOT_FOLDER_ID, include_subfolders |-> FALSE])
              = [kind |-> "Some", ids |-> {}]

(***************************************************************************)
(* The file commands (database/files.rs)                                   *)
(***************************************************************************)
\* The file names a caller may import.
ImportNames == {FileName(p) : p \in FilePaths}

\* Every call of import_file, delete_file and move_file a caller can make on
\* the catalog as it is, with entries and folders the catalog holds.
FileCalls ==
    {import_file(Current, diskDirs, diskFiles, name, force, os_ok)
       : name \in ImportNames, force \in BOOLEAN, os_ok \in BOOLEAN}
    \cup {delete_file(Current, diskFiles, entry_id, os_ok)
            : entry_id \in DOMAIN entries, os_ok \in BOOLEAN}
    \cup {move_file(Current, diskDirs, diskFiles, entry_id, folder_id, force, os_ok)
            : entry_id \in DOMAIN entries, folder_id \in DOMAIN folders,
              force \in BOOLEAN, os_ok \in BOOLEAN}

C25_MoveFileContract ==
    \A entry_id \in DOMAIN entries, folder_id \in DOMAIN folders,
       force \in BOOLEAN, os_ok \in BOOLEAN :
        \A r \in {move_file(Current, diskDirs, diskFiles, entry_id, folder_id,
                            force, os_ok)} :
            IF entries[entry_id].folder_id = folder_id
            THEN r.st = Current /\ r.files = diskFiles /\ ~r.emitted
            ELSE r.ret = "Ok" =>
                   \A file_name \in {entries[entry_id].file_name} :
                      /\ entry_id \in DOMAIN r.st.entries
                      /\ r.st.entries[entry_id].folder_id = folder_id
                      /\ r.st.entries[entry_id].file_name = file_name
                      /\ r.st.entries[entry_id].path
                            = Join(r.st.folders[folder_id].path, file_name)
                      /\ file_name \notin
                            DOMAIN r.st.folders[entries[entry_id].folder_id].entries
                      /\ file_name \in DOMAIN r.st.folders[folder_id].entries
                      /\ r.st.folders[folder_id].entries[file_name] = entry_id
                      /\ \A other \in DOMAIN r.st.entries :
                            (/\ r.st.entries[other].folder_id = folder_id
                             /\ r.st.entries[other].file_name = file_name)
                            => other = entry_id

\* The shape of a catalog, id allocation of the entries set aside: the
\* entries by folder and file name with their tags, and the folders with the
\* file names and sub folders they list.
Shape(s) ==
    [entries |-> {<<s.entries[e].folder_id, s.entries[e].file_name,
                    s.entries[e].tag_ids>> : e \in DOMAIN s.entries},
     folders |-> {<<f, s.folders[f].path, s.folders[f].parent_id,
                    DOMAIN s.folders[f].entries, s.folders[f].sub_folders>>
                  : f \in DOMAIN s.folders}]

\* C26: import_file(x, force = true) followed by delete_file of the entry
\* registered for x returns the catalog to the shape it had before the
\* import, also when the base directory already held an entry with x's file
\* name.
C26_ImportDeleteRoundTrip ==
    \A name \in ImportNames :
        \A r1 \in {import_file(Current, diskDirs, diskFiles, name, TRUE, TRUE)} :
            (r1.ret = "Ok" /\ name \in DOMAIN r1.st.folders[ROOT_FOLDER_ID].entries) =>
                \A r2 \in {delete_file(r1.st, r1.files,
                                       r1.st.folders[ROOT_FOLDER_ID].entries[name],
                                       TRUE)} :
                    r2.ret = "Ok" => Shape(r2.st) = Shape(Current)

(***************************************************************************)
(* The emitter thread (lib.rs, AppEmitter)                                 *)
(***************************************************************************)
\* Condvar::notify_all: a thread blocked in Condvar::wait is woken and has to
\* take the mutex again; a thread elsewhere is not told anything.
NotifyAll(e) == IF e.pc = "waiting" THEN [e EXCEPT !.pc = "woken"] ELSE e

\* on_files_updated, first half: the caller takes the mutex of the state.
CallerLocks ==
    \E c \in Callers :
        /\ emitter.caller[c] = "idle"
        /\ emitter.mutex = 0
        /\ emitter' = [emitter EXCEPT !.caller[c] = "locked", !.mutex = c]
        /\ UNCHANGED <<tagVars, fsVars, waveform, watcher, app, locks>>

\* on_files_updated, second half: the flag is set, notify_all is called and
\* the guard is dropped.  From here on the call waits for an emit.
CallerNotifies ==
    \E c \in Callers, immediate \in BOOLEAN :
        /\ emitter.caller[c] = "locked"
        /\ emitter' =
              NotifyAll([emitter EXCEPT
                  !.files_updated_immediate = IF immediate THEN TRUE ELSE @,
                  !.files_updated_delayed = IF immediate THEN @ ELSE TRUE,
                  !.caller[c] = "idle", !.mutex = 0, !.unserved = TRUE])
        /\ UNCHANGED <<tagVars, fsVars, waveform, watcher, app, locks>>

\* AppEmitter::stop
EmitterStop ==
    /\ emitter.mutex = 0
    /\ ~emitter.stopped
    /\ emitter' = NotifyAll([emitter EXCEPT !.stopped = TRUE])
    /\ UNCHANGED <<tagVars, fsVars, waveform, watcher, app, locks>>

\* run: self.state.lock() before the loop.
EmitterLocks ==
    /\ emitter.pc = "spawned"
    /\ emitter.mutex = 0
    /\ emitter' = [emitter EXCEPT !.pc = "holding", !.mutex = -1]
    /\ UNCHANGED <<tagVars, fsVars, waveform, watcher, app, locks>>

\* run: condvar.wait(state) at the top of the loop gives up the mutex and
\* blocks, whatever the flags say.
EmitterWaits ==
    /\ emitter.pc = "holding"
    /\ emitter' = [emitter EXCEPT !.pc = "waiting", !.mutex = 0]
    /\ UNCHANGED <<tagVars, fsVars, waveform, watcher, app, locks>>

\* Condvar::wait may return without a notification.
SpuriousWakeup ==
    /\ emitter.pc = "waiting"
    /\ emitter' = [emitter EXCEPT !.pc = "woken"]
    /\ UNCHANGED <<tagVars, fsVars, waveform, watcher, app, locks>>

\* run: wait returns with the mutex; the thread stops, drops the guard to
\* emit, starts the 500 ms wait, or goes round the loop.
EmitterWakes ==
    /\ emitter.pc = "woken"
    /\ emitter.mutex = 0
    /\ emitter' =
          IF emitter.stopped THEN [emitter EXCEPT !.pc = "stopped"]
          ELSE IF emitter.files_updated_immediate
          THEN [emitter EXCEPT !.pc = "emitting", !.unserved = FALSE]
          ELSE IF emitter.files_updated_delayed
          THEN [emitter EXCEPT !.pc = "delaying"]
          ELSE [emitter EXCEPT !.pc = "holding", !.mutex = -1]
    /\ UNCHANGED <<tagVars, fsVars, waveform, watcher, app, locks>>

\* run: wait_timeout_while returns with the mutex, after 500 ms or on an
\* immediate update or a stop; the thread stops or drops the guard to emit.
EmitterDelayEnds ==
    /\ emitter.pc = "delaying"
    /\ emitter.mutex = 0
    /\ emitter' =
          IF emitter.stopped THEN [emitter EXCEPT !.pc = "stopped"]
          ELSE [emitter EXCEPT !.pc = "emitting", !.unserved = FALSE]
    /\ UNCHANGED <<tagVars, fsVars, waveform, watcher, app, locks>>

\* run: app.emit("files_updated") returns, the thread takes the mutex again
\* and clears both flags.
EmitterClears ==
    /\ emitter.pc = "emitting"
    /\ emitter.mutex = 0
    /\ emitter' = [emitter EXCEPT !.pc = "holding", !.mutex = -1,
                                  !.files_updated_immediate = FALSE,
                                  !.files_updated_delayed = FALSE]
    /\ UNCHANGED <<tagVars, fsVars, waveform, watcher, app, locks>>

\* The steps of the emitter thread.
EmitterThread ==
    EmitterLocks \/ EmitterWaits \/ EmitterWakes \/ EmitterDelayEnds \/ EmitterClears

NextEmitter ==
    \/ CallerLocks
    \/ CallerNotifies
    \/ EmitterStop
    \/ EmitterLocks
    \/ EmitterWaits
    \/ SpuriousWakeup
    \/ EmitterWakes
    \/ EmitterDelayEnds
    \/ EmitterClears

\* The emitter thread runs whenever it can and is not starved of the mutex
\* by the callers, and a caller that holds the mutex finishes its call;
\* nothing makes a caller call, and nothing makes the condition variable wake
\* without a notification.
SpecEmitter ==
    Init /\ [][NextEmitter]_vars /\ SF_vars(EmitterThread) /\ WF_vars(CallerNotifies)

\* C27: every on_files_updated call is eventually followed by a files_updated
\* emit that starts after the call, unless the emitter is stopped.
C27_NoNotificationLost == emitter.unserved ~> (~emitter.unserved \/ emitter.stopped)

(***************************************************************************)
(* The waveform generator (core/waveform.rs)                               *)
(***************************************************************************)
\* set_source calls, workers ever spawned, packets of a stream, and the
\* decoded packets that make one batch (src_samples_per_batch).
MaxSources == 2

MaxWorkers == 2

MaxPackets == 2

BatchPackets == 2

\* WaveformGenerator::set_source: the path is stored and reset is set.
SetSource ==
    \E path \in 0 .. 1 :
        /\ waveform.sets < MaxSources
        /\ waveform' = [waveform EXCEPT !.source_path = path, !.reset = TRUE,
                                        !.sets = @ + 1]
        /\ UNCHANGED <<tagVars, fsVars, emitter, watcher, app, locks>>

\* WaveformGenerator::request_waveform: SourceNotSet or a reader that does
\* not open changes nothing; otherwise reset is cleared, and unless the track
\* or its codec is missing a worker is spawned on a stream of some length.
RequestWaveform ==
    \E opened \in BOOLEAN, track \in BOOLEAN, length \in 1 .. MaxPackets :
        /\ Len(waveform.workers) < MaxWorkers
        /\ waveform' =
              IF waveform.source_path = 0 \/ ~opened THEN waveform
              ELSE IF ~track THEN [waveform EXCEPT !.reset = FALSE]
              ELSE [waveform EXCEPT
                      !.reset = FALSE,
                      !.workers = Append(@, [source |-> waveform.sets, pc |-> "check1",
                                             packets |-> length, head |-> 0, tail |-> 0,
                                             end |-> FALSE, delivered |-> 0])]
        /\ UNCHANGED <<tagVars, fsVars, emitter, watcher, app, locks>>

\* The worker loads reset, before the packet and after it: on reset it leaves
\* the loop.
WorkerLoadsReset(w) ==
    /\ w \in DOMAIN waveform.workers
    /\ waveform.workers[w].pc \in {"check1", "check2"}
    /\ waveform' =
          [waveform EXCEPT !.workers[w].pc =
              IF waveform.reset THEN "done"
              ELSE IF @ = "check1" THEN "packet" ELSE "consume"]
    /\ UNCHANGED <<tagVars, fsVars, emitter, watcher, app, locks>>

\* The worker takes the next packet: of another track (continue), decoded
\* into the samples, skipped on a decode or IO error, an unrecoverable error,
\* or the end of the stream.
WorkerNextPacket(w) ==
    /\ w \in DOMAIN waveform.workers
    /\ waveform.workers[w].pc = "packet"
    /\ \E outcome \in IF waveform.workers[w].packets = 0 THEN {"end"}
                     ELSE {"other_track", "decoded", "skipped", "error"} :
          waveform' =
              [waveform EXCEPT !.workers[w] =
                  [@ EXCEPT
                     !.pc = IF outcome = "other_track" THEN "check1" ELSE "check2",
                     !.packets = IF outcome \in {"end", "error"} THEN @ ELSE @ - 1,
                     !.tail = IF outcome = "decoded" THEN @ + 1 ELSE @,
                     !.end = outcome \in {"end", "error"}]]
    /\ UNCHANGED <<tagVars, fsVars, emitter, watcher, app, locks>>

\* The samples the worker hands to the callback next: all that remain at the
\* end, a batch when one is full, else none.
AvailableSamples(worker) ==
    IF worker.end
    THEN IF worker.tail > worker.head THEN worker.tail - worker.head ELSE 0
    ELSE IF worker.tail >= worker.head + BatchPackets THEN BatchPackets ELSE 0

\* The worker consumes the available samples: it calls on_data_available and
\* moves head by a batch, or with nothing available it leaves the inner loop
\* and goes round the outer loop.
WorkerConsumes(w) ==
    /\ w \in DOMAIN waveform.workers
    /\ waveform.workers[w].pc = "consume"
    /\ waveform' =
          [waveform EXCEPT !.workers[w] =
              IF AvailableSamples(@) = 0 THEN [@ EXCEPT !.pc = "check1"]
              ELSE [@ EXCEPT !.head = @ + BatchPackets, !.delivered = @ + 1]]
    /\ UNCHANGED <<tagVars, fsVars, emitter, watcher, app, locks>>

\* The steps of worker w.
WorkerThread(w) == WorkerLoadsReset(w) \/ WorkerNextPacket(w) \/ WorkerConsumes(w)

NextWaveform ==
    \/ SetSource
    \/ RequestWaveform
    \/ \E w \in 1 .. MaxWorkers : WorkerLoadsReset(w)
    \/ \E w \in 1 .. MaxWorkers : WorkerNextPacket(w)
    \/ \E w \in 1 .. MaxWorkers : WorkerConsumes(w)

\* Every spawned worker thread keeps running; nothing makes the caller set a
\* source or request a waveform.
SpecWaveform ==
    Init /\ [][NextWaveform]_vars /\ \A w \in 1 .. MaxWorkers : WF_vars(WorkerThread(w))

\* C28: after set_source every worker started by an earlier request_waveform
\* eventually exits (and an exited worker delivers nothing).
C28_OldWorkersExit ==
    \A w \in 1 .. MaxWorkers :
        (w \in DOMAIN waveform.workers /\ waveform.workers[w].source < waveform.sets)
        ~> (w \in DOMAIN waveform.workers /\ waveform.workers[w].pc = "done")

\* C29: when the decoder reaches the end of the stream or an unrecoverable
\* error and no reset happens, the worker delivers the remaining samples once
\* and then terminates.
C29_WorkerEndsAtEndOfStream ==
    \A w \in 1 .. MaxWorkers :
        (w \in DOMAIN waveform.workers /\ waveform.workers[w].end)
        ~> (waveform.reset
            \/ (w \in DOMAIN waveform.workers /\ waveform.workers[w].pc = "done"))

(***************************************************************************)
(* Closing the database (database.rs close, file_watcher.rs watch_dir)     *)
(***************************************************************************)
\* The calls of close.
MaxCloses == 3

\* Database::close: stop_tx.send(()) on the channel of capacity one.  With
\* the receiver dropped send returns an error, which close ignores; with the
\* channel empty the message is stored; with the channel full send blocks.
Close ==
    /\ watcher.closes < MaxCloses
    /\ watcher' =
          IF watcher.pc = "left" THEN [watcher EXCEPT !.closes = @ + 1]
          ELSE IF watcher.stop = 0
          THEN [watcher EXCEPT !.closes = @ + 1, !.stop = 1]
          ELSE [watcher EXCEPT !.closes = @ + 1, !.sending = @ + 1]
    /\ UNCHANGED <<tagVars, fsVars, emitter, waveform, app, locks>>

\* A blocked send of close ends: the channel has room again, or the receiver
\* is dropped.
CloseSendEnds ==
    /\ watcher.sending > 0
    /\ watcher.stop = 0 \/ watcher.pc = "left"
    /\ watcher' = [watcher EXCEPT !.sending = @ - 1,
                                  !.stop = IF watcher.pc = "left" THEN @ ELSE 1]
    /\ UNCHANGED <<tagVars, fsVars, emitter, waveform, app, locks>>

\* watch_dir: select! takes the stop message and breaks out of the loop.
WatcherTakesStop ==
    /\ WatcherRuns
    /\ watcher.stop = 1
    /\ watcher' = [watcher EXCEPT !.pc = "leaving", !.stop = 0]
    /\ UNCHANGED <<tagVars, fsVars, emitter, waveform, app, locks>>

\* watch_dir: the thread ends; its closure drops the receiver with whatever
\* the channel holds, and the debouncer.
WatcherEnds ==
    /\ watcher.pc = "leaving"
    /\ watcher' = [watcher EXCEPT !.pc = "left", !.stop = 0]
    /\ UNCHANGED <<tagVars, fsVars, emitter, waveform, app, locks>>

\* Files come and go in the base directory, the watcher thread handles the
\* events, and the database is closed, also more than once.
NextClose ==
    \/ ExtCreateFile
    \/ ExtRemoveFile
    \/ WatcherEvent
    \/ Close
    \/ CloseSendEnds
    \/ WatcherTakesStop
    \/ WatcherEnds

\* select! takes a message that is ready, the thread that left the loop ends,
\* and a send that can end does.
SpecClose ==
    /\ Init /\ [][NextClose]_vars
    /\ WF_vars(WatcherTakesStop) /\ WF_vars(WatcherEnds) /\ WF_vars(CloseSendEnds)

\* C30: after close() the watcher thread eventually leaves its loop; once it
\* has left, no event is handled and the model and the store do not change;
\* and every close() returns, also the second one and one after the thread
\* has ended.
C30_CloseStopsWatcher ==
    /\ (watcher.closes > 0) ~> (watcher.pc = "left")
    /\ (watcher.sending > 0) ~> (watcher.sending = 0)
    /\ [][watcher.pc # "loop" =>
            /\ pending # NoEvent => pending' = pending
            /\ UNCHANGED <<tagVars, folders, entries, folderRows, entryRows,
                           folderSeq, entrySeq, entryTagRows, emitter>>]_vars

C30_Witness ==
    /\ watcher.pc = "left"
    /\ watcher.closes = MaxCloses
    /\ watcher.sending = 0
    /\ pending # NoEvent
    /\ entries # <<>>

(***************************************************************************)
(* The application state (lib.rs, AppData) and the player (core/player.rs) *)
(***************************************************************************)
\* The Database objects built, hence the player workers spawned.
MaxOpens == 3

\* open_database and create_database, lines 178-184 and 194-200: the database
\* of the slot is closed first; when Database::open or Database::create fails
\* the `?` returns before replace and before Player::run; otherwise the new
\* database fills the slot and Player::run spawns a worker.
replace_database(a, ok) ==
    LET told == IF a.database # 0 THEN a.told \cup {a.database} ELSE a.told
    IN  IF ~ok THEN [a EXCEPT !.told = told]
        ELSE [a EXCEPT !.told = told, !.database = a.opened + 1,
                       !.opened = @ + 1,
                       !.workers = Append(@, [pc |-> "spawned",
                                              had_source |-> FALSE])]

\* The command open_database; ok is the outcome of Database::open.
OpenDatabase ==
    \E ok \in BOOLEAN :
        /\ app.opened < MaxOpens
        /\ app' = replace_database(app, ok)
        /\ UNCHANGED <<tagVars, fsVars, emitter, waveform, watcher, locks>>

\* The command create_database; ok is the outcome of Database::create.
CreateDatabase ==
    \E ok \in BOOLEAN :
        /\ app.opened < MaxOpens
        /\ app' = replace_database(app, ok)
        /\ UNCHANGED <<tagVars, fsVars, emitter, waveform, watcher, locks>>

\* The command close_database: the slot is emptied and its database closed,
\* Player::terminate takes the sink, and the waveform source is unset.
CloseDatabase ==
    /\ waveform.sets < MaxSources
    /\ app' = [app EXCEPT
                 !.told = IF app.database # 0 THEN @ \cup {app.database} ELSE @,
                 !.database = 0, !.sink = 0, !.queued = FALSE]
    /\ waveform' = [waveform EXCEPT !.source_path = 0, !.reset = TRUE,
                                    !.sets = @ + 1]
    /\ UNCHANGED <<tagVars, fsVars, emitter, watcher, locks>>

\* The command set_player_source: DatabaseNotOpen without a database and
\* PlayerNotStarted without a sink; otherwise the sink is cleared, and unless
\* the file cannot be probed the source is stored in the player and in the
\* waveform generator.
SetPlayerSource ==
    \E probed \in BOOLEAN :
        /\ waveform.sets < MaxSources
        /\ IF app.database = 0 \/ app.sink = 0
           THEN UNCHANGED <<app, waveform>>
           ELSE IF ~probed
           THEN app' = [app EXCEPT !.queued = FALSE] /\ UNCHANGED waveform
           ELSE /\ app' = [app EXCEPT !.queued = FALSE, !.source = TRUE]
                /\ waveform' = [waveform EXCEPT !.source_path = 1,
                                    !.reset = TRUE, !.sets = @ + 1]
        /\ UNCHANGED <<tagVars, fsVars, emitter, watcher, locks>>

\* The command play, Player::play: PlayerNotStarted, SourceNotSet; into an
\* empty sink the source is appended, unless the file does not open.
Play ==
    \E opens \in BOOLEAN :
        /\ app.sink # 0 /\ app.source /\ ~app.queued /\ opens
        /\ app' = [app EXCEPT !.queued = TRUE, !.ended = 0]
        /\ UNCHANGED <<tagVars, fsVars, emitter, waveform, watcher, locks>>

\* The sink has played its source to the end.
SourceEnds ==
    /\ app.queued
    /\ app' = [app EXCEPT !.queued = FALSE]
    /\ UNCHANGED <<tagVars, fsVars, emitter, waveform, watcher, locks>>

\* Player::run, the head of the thread: the output stream and a new sink,
\* which replaces the sink of the player; a failure panics the thread.
PlayerStarts(w) ==
    \E stream \in BOOLEAN :
        /\ w \in DOMAIN app.workers
        /\ app.workers[w].pc = "spawned"
        /\ app' = IF stream
                  THEN [app EXCEPT !.workers[w].pc = "sleep", !.sink = 1,
                                   !.queued = FALSE]
                  ELSE [app EXCEPT !.workers[w].pc = "done"]
        /\ UNCHANGED <<tagVars, fsVars, emitter, waveform, watcher, locks>>

\* Player::run, one turn of the loop after its sleep: without a sink the
\* worker ends; a sink found empty after it had a source is reported once.
PlayerPolls(w) ==
    /\ w \in DOMAIN app.workers
    /\ app.workers[w].pc = "sleep"
    /\ app' = IF app.sink = 0 THEN [app EXCEPT !.workers[w].pc = "done"]
              ELSE IF app.workers[w].had_source /\ ~app.queued
              THEN [app EXCEPT !.workers[w].had_source = FALSE,
                               !.ended = @ + 1]
              ELSE IF app.queued
              THEN [app EXCEPT !.workers[w].had_source = TRUE]
              ELSE app
    /\ UNCHANGED <<tagVars, fsVars, emitter, waveform, watcher, locks>>

NextApp ==
    \/ OpenDatabase
    \/ CreateDatabase
    \/ CloseDatabase
    \/ SetPlayerSource
    \/ Play
    \/ SourceEnds
    \/ \E w \in 1 .. MaxOpens : PlayerStarts(w)
    \/ \E w \in 1 .. MaxOpens : PlayerPolls(w)

SpecApp == Init /\ [][NextApp]_vars

\* C31: whenever the slot of the application holds a database, the watcher
\* thread of that database has not been told to stop.
C31_OpenDatabaseIsWatched ==
    app.database # 0 => app.database \notin app.told

\* The player workers that have not ended.
AliveWorkers == {w \in DOMAIN app.workers : app.workers[w].pc # "done"}

\* C39: at most one polling worker of the player is alive, and between two
\* sources the workers report at most one end of source.
C39_OnePollingWorker ==
    /\ Cardinality(AliveWorkers) <= 1
    /\ app.ended <= 1

(***************************************************************************)
(* The store transaction of move_folder                                    *)
(***************************************************************************)
\* C32: when the watcher handles the rename of a directory that is a folder
\* of the model, the only folder rows that leave the store are rows at the
\* target key (new parent, new name), and every entry of the model keeps its
\* row and its entry_tag rows.
C32_MoveFolderKeepsRows ==
    (/\ pending.kind = "RenameBoth"
     /\ pending.paths[2] \in diskDirs
     /\ get_folder_by_path(folders, pending.paths[1]) # NoId) =>
        \A r \in {handle_file_event(Current, diskDirs, diskFiles, pending)} :
        \A moved \in {get_folder_by_path(folders, pending.paths[1])} :
        \A target \in {get_folder_by_path(folders, Parent(pending.paths[2]))} :
            /\ \A f \in (DOMAIN folderRows) \ DOMAIN r.frows :
                  /\ folderRows[f].parent = target
                  /\ folderRows[f].name = FileName(pending.paths[2])
            /\ \A e \in DOMAIN r.entries :
                  e \in DOMAIN entryRows => e \in DOMAIN r.erows
            /\ \A row \in entryTagRows :
                  row[1] \in DOMAIN r.entries => row \in r.etags

(***************************************************************************)
(* Store transactions that fail                                            *)
(***************************************************************************)
\* DatabaseData::reorder_tag with the outcome of its transaction as an input:
\* an unchanged position returns before the transaction; a failed transaction
\* returns the error before the in-memory update.
reorder_tag(T, R, tag_id, to_parent_id, to_pos, tx_fails) ==
    LET done == ReorderTag(T, R, tag_id, to_parent_id, to_pos)
        same == /\ T[tag_id].parent_id = to_parent_id
                /\ T[tag_id].position = ReorderToPos(T, to_parent_id, to_pos)
    IN  IF ~tx_fails \/ same THEN done
        ELSE Rollback([tags |-> T, rows |-> R, res |-> "Err"],
                      [tags |-> T, rows |-> done.rows, res |-> "Err"])

\* The catalog, with a store whose next transaction fails.
StoreFails == [Current EXCEPT !.tx_fails = TRUE]

\* The command reorder_tag, its transaction failing.
ReorderTagTxFails ==
    \E id \in UserTags :
      \E p \in LegalParents(tags, id) :
        \E k \in LegalPos(tags, p) :
          \E r \in {reorder_tag(tags, tagRows, id, p, k, TRUE)} :
          /\ r.res = "Err"
          /\ tags' = r.tags
          /\ tagRows' = r.rows
          /\ UNCHANGED <<tagSeq, fsVars, threadVars>>

\* The watcher thread handles a rename, the transaction of move_entry or
\* move_folder failing: the Err is logged.
WatcherEventTxFails ==
    /\ WatcherRuns
    /\ pending.kind = "RenameBoth"
    /\ pending' = NoEvent
    /\ UNCHANGED <<tagVars, threadVars, diskDirs, diskFiles, changes>>
    /\ \E r \in {handle_file_event(s, dirs, files, event)
                 : s \in {StoreFails}, dirs \in {diskDirs}, files \in {diskFiles},
                   event \in {pending}} : Outcome(r)

\* The command move_file, the transaction of move_entry_to_folder failing
\* after the rename on disk.
MoveFileTxFails ==
    \E entry_id \in DOMAIN entries, folder_id \in DOMAIN folders, force \in BOOLEAN :
        \E r \in {move_file(StoreFails, diskDirs, diskFiles, entry_id, folder_id,
                            force, TRUE)} :
        /\ Idle
        /\ Join(folders[folder_id].path, entries[entry_id].file_name) \in FilePaths
        /\ r.ret = "Err"
        /\ diskFiles' = r.files
        /\ Outcome(r.st)
        /\ changes' = changes + 1
        /\ pending' = [kind |-> "RenameBoth",
                       paths |-> <<entries[entry_id].path,
                                   Join(folders[folder_id].path,
                                        entries[entry_id].file_name)>>]
        /\ UNCHANGED <<tagVars, threadVars, diskDirs>>

\* A database created on a base directory that holds two directories and an
\* audio file in one of them.
InitTx == InitOn({<<DirD>>, <<DirE>>}, {<<DirD, FileAWav>>})

\* Directories are renamed and files moved, tags are created and
\* reordered, and the transactions of the moves and of the reorders may fail.
NextTx ==
    \/ ExtRenameDir
    \/ WatcherEvent
    \/ NewEntryTagCmd
    \/ ReorderTagCmd
    \/ ReorderTagTxFails
    \/ WatcherEventTxFails
    \/ MoveFileTxFails

SpecTx == InitTx /\ [][NextTx]_vars

\* The calls of move_entry, move_entry_to_folder and move_folder on the
\* catalog as it is, their transaction failing.
FailingMoves ==
    {move_entry(StoreFails, entry_id, new_path)
       : entry_id \in DOMAIN entries, new_path \in FilePaths}
    \cup {move_entry_to_folder(StoreFails, entry_id, folder_id)
            : entry_id \in DOMAIN entries, folder_id \in DOMAIN folders}
    \cup {move_folder(StoreFails, old_path, new_path)
            : old_path \in {p \in DirPaths : get_folder_by_path(folders, p) # NoId},
              new_path \in DirPaths}

\* C33: when the transaction of reorder_tag, move_entry, move_entry_to_folder
\* or move_folder fails, the call returns the error with the model and the
\* store as they were before the call.
C33_FailedTransactionRollsBack ==
    /\ \A r \in FailingMoves :
          r.res # "Panic" => r = Failed(StoreFails)
    /\ \A id \in UserTags : \A p \in LegalParents(tags, id) :
          \A k \in LegalPos(tags, p) :
          \A r \in {reorder_tag(tags, tagRows, id, p, k, TRUE)} :
              r.res = "Err" => r.tags = tags /\ r.rows = tagRows

C33_Witness ==
    /\ \E entry_id \in DOMAIN entries, new_path \in FilePaths :
          /\ move_entry(StoreFails, entry_id, new_path).res = "Err"
          /\ move_entry(Current, entry_id, new_path).erows # entryRows
    /\ \E entry_id \in DOMAIN entries, folder_id \in DOMAIN folders :
          /\ move_entry_to_folder(StoreFails, entry_id, folder_id).res = "Err"
          /\ move_entry_to_folder(Current, entry_id, folder_id).erows # entryRows
    /\ \E f \in (DOMAIN folders) \ {ROOT_FOLDER_ID}, new_path \in DirPaths :
          /\ move_folder(StoreFails, folders[f].path, new_path).res = "Err"
          /\ move_folder(Current, folders[f].path, new_path).res = "Ok"
          /\ move_folder(Current, folders[f].path, new_path).frows # folderRows
    /\ \E id \in UserTags : \E p \in LegalParents(tags, id) :
          \E k \in LegalPos(tags, p) :
          /\ reorder_tag(tags, tagRows, id, p, k, TRUE).res = "Err"
          /\ ReorderTag(tags, tagRows, id, p, k).rows # tagRows
    /\ pending.kind = "RenameBoth"

(***************************************************************************)
(* The serial and the batched strategy                                     *)
(***************************************************************************)
\* C34: on every catalog and for every list of one path or of two different
\* paths, add_folders_serial and add_folders_batch leave the same folders and
\* rows, and add_entries_serial and add_entries_batch leave the same entries
\* (ids, folder_id, tag_ids) and rows.
C34_SerialAndBatchAgree ==
    /\ \A paths \in {<<p>> : p \in DirPaths} \cup {<<p, q>> : p, q \in DirPaths} :
          add_folders_serial(Current, paths) = add_folders_batch(Current, paths)
    /\ \A paths \in {<<p>> : p \in FilePaths}
                    \cup {pq \in {<<p, q>> : p, q \in FilePaths} : pq[1] # pq[2]} :
          add_entries_serial(Current, paths) = add_entries_batch(Current, paths)

(***************************************************************************)
(* The locks of the database: Database.data and Database.db                *)
(***************************************************************************)
\* A code path that takes the store lock before the model lock.
StoreFirst == <<"db", "write">>

\* The code paths that change the catalog: the write guard of Database.data,
\* then the guard of Database.db (get_data_mut! then get_db!; in files.rs and
\* file_watcher.rs the receiver data.write() before the argument db.lock()).
Mutator == <<"write", "db">>

\* The lock sequences of the code paths of a thread.  The watcher thread
\* changes the catalog, or takes the write guard alone (to_relative_path); a
\* command reads under the read guard (get_data!) or changes the catalog.
\* Database::prune takes Database.db alone, from Database::open and
\* Database::create, before any other thread has the database.
LockPlans(t) ==
    IF t = 1 THEN {Mutator, <<"write">>} ELSE {Mutator, <<"read">>}

\* A thread enters one of its code paths.
EnterPath(t) ==
    \E plan \in LockPlans(t) :
        /\ locks.plan[t] = <<>>
        /\ locks' = [locks EXCEPT !.plan[t] = plan]
        /\ UNCHANGED <<tagVars, fsVars, emitter, waveform, watcher, app>>

\* The lock a thread is about to take is free for it.
CanLock(t) ==
    /\ locks.plan[t] # <<>>
    /\ locks.held[t] < Len(locks.plan[t])
    /\ \A lock \in {locks.plan[t][locks.held[t] + 1]} :
          CASE lock = "write" -> locks.writer = 0 /\ locks.readers = {}
            [] lock = "read"  -> locks.writer = 0
            [] lock = "db"    -> locks.db = 0

\* RwLock::write, RwLock::read, Mutex::lock: the thread takes the next lock of
\* its path.
Lock(t) ==
    /\ CanLock(t)
    /\ \E lock \in {locks.plan[t][locks.held[t] + 1]} :
          locks' = [locks EXCEPT
                      !.held[t] = @ + 1,
                      !.writer = IF lock = "write" THEN t ELSE @,
                      !.readers = IF lock = "read" THEN @ \cup {t} ELSE @,
                      !.db = IF lock = "db" THEN t ELSE @]
    /\ UNCHANGED <<tagVars, fsVars, emitter, waveform, watcher, app>>

\* The end of the code path: the guards are dropped.
Unlock(t) ==
    /\ locks.plan[t] # <<>>
    /\ locks.held[t] = Len(locks.plan[t])
    /\ locks' = [locks EXCEPT
                   !.plan[t] = <<>>, !.held[t] = 0,
                   !.writer = IF @ = t THEN 0 ELSE @,
                   !.readers = @ \ {t},
                   !.db = IF @ = t THEN 0 ELSE @]
    /\ UNCHANGED <<tagVars, fsVars, emitter, waveform, watcher, app>>

NextLocks ==
    \/ \E t \in LockThreads : EnterPath(t)
    \/ \E t \in LockThreads : Lock(t)
    \/ \E t \in LockThreads : Unlock(t)

SpecLocks == Init /\ [][NextLocks]_vars

\* The thread waits for the model lock.
WaitsForData(t) ==
    /\ locks.plan[t] # <<>>
    /\ locks.held[t] < Len(locks.plan[t])
    /\ locks.plan[t][locks.held[t] + 1] \in {"read", "write"}

\* C35: no thread waits for the model lock while it holds the store lock, and
\* whenever threads are inside code paths one of them can go on: the command
\* handlers and the watcher thread never deadlock on the two locks.
C35_ModelLockFirst ==
    /\ \A t \in LockThreads : WaitsForData(t) => locks.db # t
    /\ (\E t \in LockThreads : locks.plan[t] # <<>>)
          => \E t \in LockThreads :
                CanLock(t) \/ (locks.plan[t] # <<>> /\ locks.held[t] = Len(locks.plan[t]))

C35_Witness ==
    /\ locks.writer = 1 /\ locks.db = 1
    /\ locks.plan[2] = Mutator /\ locks.held[2] = 0
    /\ locks.plan[3] = <<"read">> /\ locks.held[3] = 0

(***************************************************************************)
(* The model and the live rows of the store                                *)
(***************************************************************************)

\* C36: after every completed catalog operation the folder ids and the
\* entry ids of the model are exactly the ids of the rows of folders and
\* entries whose deleted is NULL, and a row of the model has the parent or
\* folder and the name the model has.
C36_ModelMatchesLiveRows ==
    /\ (DOMAIN folders) =
          {f \in DOMAIN folderRows : folderRows[f].deleted = "NULL"}
    /\ (DOMAIN entries) =
          {e \in DOMAIN entryRows : entryRows[e].deleted = "NULL"}
    /\ \A f \in (DOMAIN folders) \ {ROOT_FOLDER_ID} :
          f \in DOMAIN folderRows =>
              /\ folderRows[f].parent = folders[f].parent_id
              /\ folderRows[f].name = folders[f].name
    /\ \A e \in DOMAIN entries :
          e \in DOMAIN entryRows =>
              /\ entryRows[e].folder_id = entries[e].folder_id
              /\ entryRows[e].file_name = entries[e].file_name

(***************************************************************************)
(* reorder_tag and the tag tree                                            *)
(***************************************************************************)

\* get_tag_order, lines 1315-1319: the walk from a tag along parent_id, cut
\* after n steps.
RECURSIVE ReachesRootIn(_, _, _)
ReachesRootIn(T, tag_id, n) ==
    IF tag_id = ROOT_TAG_ID THEN TRUE
    ELSE IF n = 0 \/ tag_id \notin DOMAIN T THEN FALSE
    ELSE ReachesRootIn(T, T[tag_id].parent_id, n - 1)

\* A tree rooted at the root tag: every walk along parent_id ends at the
\* root, and the children sets are the inverse of parent_id.
IsTagTree(T) ==
    /\ \A t \in DOMAIN T : ReachesRootIn(T, t, Cardinality(DOMAIN T))
    /\ \A p \in DOMAIN T :
          T[p].children =
              {c \in (DOMAIN T) \ {ROOT_TAG_ID} : T[c].parent_id = p}

\* C37: reorder_tag with existing tag ids, the target parent being any tag of
\* the catalog (the moved tag and its descendants included), leaves a tree
\* rooted at the root tag, so that get_tag_order terminates for every tag.
C37_ReorderKeepsTree ==
    /\ IsTagTree(tags)
    /\ \A id \in UserTags :
         \A p \in DOMAIN tags :
           \A k \in LegalPos(tags, p) :
              IsTagTree(ReorderTag(tags, tagRows, id, p, k).tags)

(***************************************************************************)
(* A batch of the watcher and on_files_updated                             *)
(***************************************************************************)

\* A debounced event with need_rescan(): the watcher lost events.
RescanEvent == [kind |-> "Rescan", paths |-> <<>>]

\* watch_dir, lines 69-97: the events of one batch in order.  A need_rescan
\* event runs scan (an Err is logged) and breaks out of the batch, leaving
\* updated as it was; any other event ors what handle_file_event returned into
\* updated; on_files_updated is called if updated.
RECURSIVE watch_batch(_, _, _, _, _)
watch_batch(s, dirs, files, events, updated) ==
    IF events = <<>> \/ s.res = "Panic" THEN [st |-> s, updated |-> updated]
    ELSE IF Head(events).kind = "Rescan"
    THEN [st |-> scan([s EXCEPT !.res = "Ok"], dirs, files), updated |-> updated]
    ELSE CHOOSE out \in
           {watch_batch(r, dirs, files, Tail(events),
                        updated \/ files_updated(r, dirs, files, Head(events)))
            : r \in {handle_file_event([s EXCEPT !.res = "Ok"], dirs, files,
                                       Head(events))}} : TRUE

\* The batches the debouncer may hand over now: the pending event, a
\* need_rescan event in its place, or both.
Batches ==
    {<<RescanEvent>>} \cup
    (IF pending = NoEvent THEN {} ELSE {<<pending>>, <<pending, RescanEvent>>})

\* C38: a watcher batch that changes the model, a batch with a need_rescan
\* event included, calls on_files_updated.
C38_ChangedBatchIsNotified ==
    \A batch \in Batches :
        \A r \in {watch_batch(Current, diskDirs, diskFiles, batch, FALSE)} :
            (/\ r.st.res # "Panic"
             /\ (r.st.folders # folders \/ r.st.entries # entries))
            => r.updated

(***************************************************************************)
(* A store statement that fails in add_tag_for_entry                       *)
(***************************************************************************)

\* C40: when the INSERT of add_tag_for_entry fails, the call returns the
\* error of the store and the model is as before the call: the entry keeps
\* its old tag_ids.
C40_FailedInsertKeepsTagIds ==
    \A e \in DOMAIN entries :
      \A t \in EntryTagIds :
        \A r \in {add_tag_for_entry(Current, e, t)} :
            r.res = "Err" => r.entries = entries

=============================================================================
